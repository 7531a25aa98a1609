---------------------------- MODULE SrtpSession ----------------------------
(***************************************************************************)
(* SrtpSession and the one libsrtp behind all sessions of the process: the *)
(* first set_send() or set_recv() starts the library, the destructor of    *)
(* the last session stops it.  The sessions belong to several worker       *)
(* threads; the count is only touched under g_libsrtp_lock, so each        *)
(* operator is one step.  SrtpTransport calls _set_key() at most once in   *)
(* the life of a session.                                                  *)
(***************************************************************************)
EXTENDS Naturals, FiniteSets

CONSTANT Session
ASSUME SessionAssumption == IsFiniteSet(Session)

VARIABLE lib   \* the library, g_libsrtp_usage_count and the sessions

(* "inited": counted, but libsrtp has refused to create it.                *)
SessionState == {"none", "inited", "created"}

Library == [up : BOOLEAN, usage : Nat, session : [Session -> SessionState]]

Counted(l) == {s \in Session : l.session[s] # "none"}

Down == [up |-> FALSE, usage |-> 0, session |-> [s \in Session |-> "none"]]

(* How _set_key() may end: srtp_init() or srtp_install_event_handler()     *)
(* fails, which only the first session calls; _do_set_key() fails; or all  *)
(* is well.  A failing srtp_install_event_handler() leaves libsrtp         *)
(* initialised and nothing counted; the next session initialises it again. *)
(* It is up here once both have succeeded.                                 *)
Outcome == {"init", "create", "ok"}

Succeeds(l, o) == o = "ok" \/ (o = "init" /\ l.usage > 0)

(* Mutant: a session is counted once libsrtp has created it.               *)
SetKeyCountedLate(l, s, o) ==
    IF o = "init" /\ l.usage = 0 THEN l
    ELSE [up |-> TRUE, usage |-> IF o = "create" THEN l.usage ELSE l.usage + 1,
          session |-> [l.session EXCEPT ![s] = IF o = "create" THEN "inited" ELSE "created"]]

(* _set_key(): counted first, then created.                                *)
SetKey(l, s, o) ==
    IF o = "init" /\ l.usage = 0 THEN l
    ELSE [up |-> TRUE, usage |-> l.usage + 1,
          session |-> [l.session EXCEPT ![s] = IF o = "create" THEN "inited" ELSE "created"]]

(* ~SrtpSession(): the session is freed, then the library if it was the    *)
(* last one.                                                               *)
Delete(l, s) ==
    IF l.session[s] = "none" THEN l
    ELSE [up |-> IF l.usage = 1 THEN FALSE ELSE l.up, usage |-> l.usage - 1,
          session |-> [l.session EXCEPT ![s] = "none"]]

LibInit == lib = Down

LibNext == \E s \in Session :
    \/ \E o \in Outcome : lib.session[s] = "none" /\ lib' = SetKey(lib, s, o)
    \/ lib' = Delete(lib, s)

LibSpec == LibInit /\ [][LibNext]_lib

(* The library is up exactly while a session is counted, and the count is  *)
(* the number of sessions: a failure half-way neither loses a reference,   *)
(* which would stop libsrtp under a live session of another thread, nor    *)
(* keeps one.                                                              *)
Sound(l) ==
    /\ l \in Library
    /\ l.usage = Cardinality(Counted(l))
    /\ l.up <=> l.usage > 0
=============================================================================
