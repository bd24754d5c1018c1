---------------------------- MODULE AtomicApply ----------------------------
(***************************************************************************)
(* What a setup transaction promises its caller, without undo lists,       *)
(* backups or contexts: it changes objects one at a time, then either says *)
(* "applied", and every object whose check sees the change is changed, or  *)
(* gives up, takes changes back one at a time without making new ones, and *)
(* says "undone" only if nothing is left.  Otherwise it says that the host *)
(* is in an unknown state (or, interrupted, says nothing about the host).  *)
(***************************************************************************)
CONSTANTS
    Objects,    \* the objects of the plan
    Checked     \* those whose check tells a changed object from an unchanged one

VARIABLES
    changed,    \* the objects the transaction changed and can take back
    phase       \* what it is doing, or what it said when it ended

vars == <<changed, phase>>

Init == changed = {} /\ phase = "changing"

Change ==
    /\ phase = "changing"
    /\ \E o \in Objects : changed' = changed \cup {o}
    /\ UNCHANGED phase

Succeed ==
    /\ phase = "changing" /\ Checked \subseteq changed
    /\ phase' = "applied" /\ UNCHANGED changed

\* The change that fails may have had its effect.
GiveUp ==
    /\ phase = "changing" /\ phase' = "undoing"
    /\ changed' = changed \/ \E o \in Objects : changed' = changed \cup {o}

TakeBack ==
    /\ phase = "undoing"
    /\ \E o \in changed : changed' = changed \ {o}
    /\ UNCHANGED phase

EndUndone ==
    /\ phase = "undoing" /\ changed = {}
    /\ phase' = "undone" /\ UNCHANGED changed

EndUnknown ==
    /\ phase = "undoing"
    /\ phase' = "unknown" /\ UNCHANGED changed

Next == Change \/ Succeed \/ GiveUp \/ TakeBack \/ EndUndone \/ EndUnknown

Spec == Init /\ [][Next]_vars
=============================================================================
