-------------------------- MODULE ResumableSession --------------------------
(***************************************************************************)
(* What a Gateway promises about the session it resumes, whatever happens  *)
(* to its sockets (the contract in packages/ws/src/session.ts): a session  *)
(* is learned from nothing, numbered from scratch, only ever moves forward *)
(* while it lasts, and is forgotten together with its numbering.           *)
(***************************************************************************)
EXTENDS Naturals

CONSTANT Sessions   \* names of sessions, none of them 0

VARIABLES
    session,  \* the session a reconnect would resume, 0 for none
    last      \* the sequence number it would resume after, 0 for none

Init == session = 0 /\ last = 0

Establish ==
    /\ session = 0 /\ last = 0
    /\ session' \in Sessions
    /\ last' \in Nat \ {0}

Advance ==
    /\ session # 0
    /\ last' \in Nat /\ last' > last
    /\ UNCHANGED session

Forget == session' = 0 /\ last' = 0

Next == Establish \/ Advance \/ Forget

Spec == Init /\ [][Next]_<<session, last>>

=============================================================================
