--------------------------- MODULE ReplicatedLedger ---------------------------
(***************************************************************************)
(* What synchronisation promises of one kaata, with the outboxes, pushes,  *)
(* pages, numbers and clocks taken away: one history that only grows at    *)
(* its end, and devices that hold some of the events, know of some that    *)
(* the history has them, and have read a part of it.  Module EventSync     *)
(* implements it.                                                          *)
(***************************************************************************)
EXTENDS Integers, FiniteSets, Sequences, Functions

CONSTANTS
    Device, Event, Nobody,
    Trusted     \* the <<author, reader>> whose clocks the reader can accept

VARIABLES
    author,     \* author[e]: the device that wrote e, Nobody before
    history,    \* the server's log
    has,        \* has[d]: the events d holds
    confirmed,  \* confirmed[d]: those it has been told are in the history
    seen        \* seen[d]: how far d has read the history

ledgerVars == <<author, history, has, confirmed, seen>>

Published == Range(history)
Unpublished == {e \in Event : author[e] # Nobody} \ Published

\* The ways to line up some members of S.
Lines(S) == UNION {Injection(1..n, S) : n \in 1..Cardinality(S)}

Write(d, e) ==
    /\ author[e] = Nobody
    /\ author' = [author EXCEPT ![e] = d]
    /\ has' = [has EXCEPT ![d] = @ \cup {e}]
    /\ UNCHANGED <<history, confirmed, seen>>

Publish ==
    /\ \E line \in Lines(Unpublished) : history' = history \o line
    /\ UNCHANGED <<author, has, confirmed, seen>>

Fetch(d, e) ==
    /\ e \in Published
    /\ has' = [has EXCEPT ![d] = @ \cup {e}]
    /\ confirmed' = [confirmed EXCEPT ![d] = @ \cup {e}]
    /\ UNCHANGED <<author, history, seen>>

Relay(from, to, e) ==
    /\ e \in has[from]
    /\ has' = [has EXCEPT ![to] = @ \cup {e}]
    /\ UNCHANGED <<author, history, confirmed, seen>>

Confirm(d, S) ==
    /\ S \subseteq has[d] \cap Published
    /\ confirmed' = [confirmed EXCEPT ![d] = @ \cup S]
    /\ UNCHANGED <<author, history, has, seen>>

\* d has read the first n events, and holds those it could accept.
Read(d, n) ==
    /\ \A i \in 1..n : <<author[history[i]], d>> \in Trusted => history[i] \in has[d]
    /\ seen' = [seen EXCEPT ![d] = n]
    /\ UNCHANGED <<author, history, has, confirmed>>

Forget(d) ==
    /\ has' = [has EXCEPT ![d] = {}]
    /\ confirmed' = [confirmed EXCEPT ![d] = {}]
    /\ seen' = [seen EXCEPT ![d] = 0]
    /\ UNCHANGED <<author, history>>

LedgerInit ==
    /\ author = [e \in Event |-> Nobody]
    /\ history = <<>>
    /\ has = [d \in Device |-> {}]
    /\ confirmed = [d \in Device |-> {}]
    /\ seen = [d \in Device |-> 0]

LedgerNext ==
    \/ Publish
    \/ \E d \in Device :
         \/ \E e \in Event : Write(d, e) \/ Fetch(d, e)
         \/ \E from \in Device, e \in Event : Relay(from, d, e)
         \/ \E S \in SUBSET Event : Confirm(d, S)
         \/ \E n \in 0..Len(history) : Read(d, n)
         \/ Forget(d)

LedgerSpec == LedgerInit /\ [][LedgerNext]_ledgerVars
=============================================================================
