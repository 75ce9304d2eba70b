-------------------------- MODULE SubscriptionLedger --------------------------
(***************************************************************************)
(* What the subscriptions service promises of each pair of a user and a    *)
(* topic: at most one entry, which is made with the default preferences    *)
(* and then stays, under the same id, switched on or off and with          *)
(* preferences that change.                                                *)
(***************************************************************************)
CONSTANTS Pairs, Ids, Prefs, Defaults, None

VARIABLE ledger

Entries == [id : Ids, active : BOOLEAN, prefs : Prefs]
Entered == {p \in Pairs : ledger[p] # None}

\* The entries of earlier versions have the defaults (migration 002).
LedgerInit ==
    /\ ledger \in [Pairs -> Entries \cup {None}]
    /\ \A p \in Entered : ledger[p].prefs = Defaults

Enter(p, i) ==
    /\ ledger[p] = None
    /\ \A q \in Entered : ledger[q].id # i
    /\ ledger' = [ledger EXCEPT ![p] = [id |-> i, active |-> TRUE, prefs |-> Defaults]]

Amend(p) ==
    /\ ledger[p] # None
    /\ \E b \in BOOLEAN, new \in Prefs :
         ledger' = [ledger EXCEPT ![p].active = b, ![p].prefs = new]

LedgerNext == \E p \in Pairs : Amend(p) \/ \E i \in Ids : Enter(p, i)

LedgerSpec == LedgerInit /\ [][LedgerNext]_ledger
=============================================================================
