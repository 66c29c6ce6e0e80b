---------------------------- MODULE MCBackoffice ----------------------------
(***************************************************************************)
(* Two administrators who share the forms of the settings page out between *)
(* them, and the buyer, whose browser has the auto-renewal switch.         *)
(***************************************************************************)
EXTENDS Backoffice

CONSTANTS adm1, adm2, buyer

MCKey == {"ns_nodes", "price_monthly", "price_quarterly", "usdt_trc20_address",
          "usdt_cny_rate", "cf_best_domain", "cf_turnstile_site_key",
          "tg_bot_token", "open_registration", "auto_renew"}
MCStored == [k \in MCKey |->
               IF k \in Switch THEN 0 ELSE IF k = "price_quarterly" THEN 20 ELSE 10]
MCDuty == [b \in Browser |->
             CASE b = adm1 -> {"plan", "ns", "open_registration"}
               [] b = adm2 -> {"payment", "cf_best", "turnstile", "tg"}
               [] b = buyer -> {"auto_renew"}]
=============================================================================
