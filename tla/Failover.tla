------------------------------- MODULE Failover -------------------------------
(***************************************************************************)
(* MemoryStore.Lookup over the record list of one subdomain_type key of    *)
(* type A or AAAA, and the health checker whose verdicts it filters by.    *)
(*                                                                         *)
(* A probing round copies the configured addresses, releases the lock and  *)
(* lets one goroutine per address dial it, wait, dial again and write its  *)
(* verdict, while records change and machines go down and come back.       *)
(* A value list is the set of its addresses; one dial of all ports is one  *)
(* step.  Left out: other types (returned unfiltered), the agents (they    *)
(* run no checker, so nothing is unhealthy there).                         *)
(***************************************************************************)
EXTENDS Naturals, Sequences, SequencesExt, FiniteSets, FiniteSetsExt

CONSTANTS
    IP,
    Line,       \* lines that may have a record
    Client,     \* lines the IP table assigns to clients
    Base,       \* Base[l]: the part of l before '_', NoLine without one
    Def,        \* the line "def"
    NoLine,
    MaxRecs     \* bound: records of the key

ASSUME FailoverAssumption ==
    /\ Def \in Line
    /\ Base \in [Client -> Line \cup {NoLine}]
    /\ NoLine \notin Line
    /\ MaxRecs \in Nat

VARIABLES
    recs,       \* dom.Records[key]: a list of [line, vals]
    unhealthy,  \* keys of unhealthyIPs
    probe,      \* what the round's goroutine for an address does next
    first,      \* the round 5 s after the start, which asks for no setting, is due
    enabled,    \* setting health_check_enabled, edited in the table by hand
    up          \* which addresses answer a dial now

vars == <<recs, unhealthy, probe, first, enabled, up>>

\* idle: no goroutine.  alive, dead: the verdict is about to be written.
Stage == {"idle", "dial", "redial", "alive", "dead"}

\* AddRecordWithAuth replaces a line's record, so a list has one per line.
TypeOK ==
    /\ recs \in Seq([line : Line, vals : SUBSET IP])
    /\ \A i, j \in DOMAIN recs : recs[i].line = recs[j].line => i = j
    /\ unhealthy \subseteq IP
    /\ probe \in [IP -> Stage]
    /\ first \in BOOLEAN
    /\ enabled \in BOOLEAN
    /\ up \in [IP -> BOOLEAN]

Configured == UNION {recs[i].vals : i \in DOMAIN recs}

(***************************************************************************)
(* Lookup                                                                  *)
(***************************************************************************)
FilterNothing(vals) == vals                                    \* mutant
FilterHealthyIPs(vals) == vals \ unhealthy

\* The records of line l with a healthy address.
Usable(l) ==
    {i \in DOMAIN recs : recs[i].line = l /\ FilterHealthyIPs(recs[i].vals) # {}}

\* The client's own line, its operator without the province, the default line.
Prefs(c) == IF Base[c] = NoLine THEN <<c, Def>> ELSE <<c, Base[c], Def>>

\* The first preference with a usable record decides; without any, the first
\* record is returned as it is, unhealthy or not.
FallbackToNothing == {}                                        \* mutant
Fallback == IF recs = <<>> THEN {} ELSE recs[1].vals

Lookup(c) ==
    LET hits == {k \in DOMAIN Prefs(c) : Usable(Prefs(c)[k]) # {}}
    IN  IF hits = {}
          THEN Fallback
          ELSE FilterHealthyIPs(recs[Min(Usable(Prefs(c)[Min(hits)]))].vals)

(***************************************************************************)
(* Records                                                                 *)
(***************************************************************************)
Init ==
    /\ recs = <<>>
    /\ unhealthy = {}
    /\ probe = [ip \in IP |-> "idle"]
    /\ first = TRUE
    /\ enabled = TRUE
    /\ up \in [IP -> BOOLEAN]

Added(r) == Append(recs, r)                                    \* mutant

\* AddRecordWithAuth: the line's record in place, or a new one at the end.
Merged(r) ==
    IF \E i \in DOMAIN recs : recs[i].line = r.line
      THEN [i \in DOMAIN recs |-> IF recs[i].line = r.line THEN r ELSE recs[i]]
      ELSE Append(recs, r)

Put(l, vals) ==
    /\ recs' = Merged([line |-> l, vals |-> vals])
    /\ Len(recs') <= MaxRecs
    /\ UNCHANGED <<unhealthy, probe, first, enabled, up>>

\* DeleteRecordWithAuth leaves out the line's record, which is the only one of
\* the line, and keeps the others in order.
Drop(l) ==
    /\ \E i \in DOMAIN recs : recs[i].line = l /\ recs' = RemoveAt(recs, i)
    /\ UNCHANGED <<unhealthy, probe, first, enabled, up>>

(***************************************************************************)
(* The health checker                                                      *)
(***************************************************************************)
NoRound == \A ip \in IP : probe[ip] = "idle"

\* RunProbe, after the start and on a tick.  wg.Wait keeps the next tick from
\* starting a second round; without an address the round ends at once.
StartRound ==
    /\ first \/ enabled
    /\ NoRound
    /\ probe' = [ip \in IP |-> IF ip \in Configured THEN "dial" ELSE "idle"]
    /\ first' = FALSE
    /\ UNCHANGED <<recs, unhealthy, enabled, up>>

\* probeIP: a pass over the ports, and a second one 500 ms after a failed one.
FirstPass(ip) ==
    /\ probe[ip] = "dial"
    /\ probe' = [probe EXCEPT ![ip] = IF up[ip] THEN "alive" ELSE "redial"]
    /\ UNCHANGED <<recs, unhealthy, first, enabled, up>>

SecondPass(ip) ==
    /\ probe[ip] = "redial"
    /\ probe' = [probe EXCEPT ![ip] = IF up[ip] THEN "alive" ELSE "dead"]
    /\ UNCHANGED <<recs, unhealthy, first, enabled, up>>

MarkDeadOnly(ip) == IF probe[ip] = "dead" THEN unhealthy \cup {ip} ELSE unhealthy  \* mutant
MarkAliveOnly(ip) == unhealthy \ {ip}                          \* mutant
Mark(ip) == IF probe[ip] = "alive" THEN unhealthy \ {ip} ELSE unhealthy \cup {ip}

\* The goroutine takes h.mu and writes what it found, however old that is.
Verdict(ip) ==
    /\ probe[ip] \in {"alive", "dead"}
    /\ unhealthy' = Mark(ip)
    /\ probe' = [probe EXCEPT ![ip] = "idle"]
    /\ UNCHANGED <<recs, first, enabled, up>>

\* Verdicts are kept in memory alone.  An updated record is a new row, so a
\* reload may find the records of the key in another order.
Restart ==
    /\ \E new \in [DOMAIN recs -> {recs[i] : i \in DOMAIN recs}] :
         /\ \A i \in DOMAIN recs : \E j \in DOMAIN recs : new[j] = recs[i]
         /\ recs' = new
    /\ unhealthy' = {}
    /\ probe' = [ip \in IP |-> "idle"]
    /\ first' = TRUE
    /\ UNCHANGED <<enabled, up>>

(***************************************************************************)
(* The world                                                               *)
(***************************************************************************)
Flip(ip) ==
    /\ up' = [up EXCEPT ![ip] = ~ up[ip]]
    /\ UNCHANGED <<recs, unhealthy, probe, first, enabled>>

Toggle ==
    /\ enabled' = ~ enabled
    /\ UNCHANGED <<recs, unhealthy, probe, first, up>>

Checker(ip) == FirstPass(ip) \/ SecondPass(ip) \/ Verdict(ip)

Next ==
    \/ \E l \in Line, vals \in SUBSET IP : Put(l, vals)
    \/ \E l \in Line : Drop(l)
    \/ StartRound
    \/ Restart
    \/ \E ip \in IP : FirstPass(ip) \/ SecondPass(ip) \/ Verdict(ip)
    \/ \E ip \in IP : Flip(ip)
    \/ Toggle

\* The ticker fires for ever and every dial has a timeout.
Fairness ==
    /\ WF_vars(StartRound)
    /\ \A ip \in IP : WF_vars(Checker(ip))

Spec == Init /\ [][Next]_vars /\ Fairness

(***************************************************************************)
(* Properties                                                              *)
(***************************************************************************)
\* While a client's lines have a healthy address, Lookup answers with such
\* addresses only: none that is known dead, none of another operator.
AnswersHealthy ==
    \A c \in Client :
        LET mine == UNION {recs[i].vals \ unhealthy :
                             i \in {j \in DOMAIN recs : recs[j].line \in {c, Base[c], Def}}}
        IN  mine # {} => Lookup(c) # {} /\ Lookup(c) \subseteq mine

\* Whatever the verdicts, an answer holds configured addresses only, and one
\* is given as long as the first record has any.
AnswersConfigured ==
    \A c \in Client : /\ Lookup(c) \subseteq Configured
                      /\ recs # <<>> /\ recs[1].vals # {} => Lookup(c) # {}

\* The server stays up, and so does the machine, or it stays down.
Steady(ip, b) == up[ip] = b /\ ip \in Configured /\ enabled /\ ~ first

\* A machine that stays down and configured is taken out and stays out.
DeadAddressLeaves ==
    \A ip \in IP :
        <>[]Steady(ip, FALSE) => <>[](ip \in unhealthy)

\* One that comes back for good returns: no verdict of an older round sticks.
LiveAddressReturns ==
    \A ip \in IP :
        <>[]Steady(ip, TRUE) => <>[](ip \notin unhealthy)

\* What the comment on Lookup's fourth step says: it serves a dead address
\* only when every node is marked dead.
LastResortOnly ==
    \A c \in Client : Lookup(c) \cap unhealthy # {} => Configured \subseteq unhealthy
=============================================================================
