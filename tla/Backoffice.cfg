\* Two administrators and a buyer, three clicks, one fault.
SPECIFICATION Spec
CONSTANTS
    adm1 = adm1  adm2 = adm2  buyer = buyer
    Browser = {adm1, adm2, buyer}
    Key <- MCKey
    Value = {10, 20}
    Stored <- MCStored
    Duty <- MCDuty
    MaxClicks = 3
    MaxFaults = 1
    MaxOrders = 1
    NoValue = NoValue
CHECK_DEADLOCK FALSE
INVARIANTS
    TypeOK
    SettingsAsTyped
    SwitchTellsTruth
    ChargedAsShown
    BuyerKeepsPlan
