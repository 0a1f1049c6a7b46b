--------------------------- MODULE SessionDirectory ---------------------------
(***************************************************************************)
(* What a session manager promises the threads that call it: a directory   *)
(* of sessions by identifier in which every call takes effect at once.  A  *)
(* walk over the directory sees the sessions of one moment.                *)
(* SessionManager implements this specification; HandlerManager uses it.   *)
(***************************************************************************)
EXTENDS Functions

CONSTANTS Threads, Sessions, Ids, IdOf, NoSession

VARIABLES
    directory,   \* the session registered under each identifier
    answer       \* the sessions that each thread's last call gave it

vars == <<directory, answer>>

Listed(d) == Range(d) \ {NoSession}

Answers(t, S) == answer' = [answer EXCEPT ![t] = S]

Init ==
    /\ directory = [i \in Ids |-> NoSession]
    /\ answer = [t \in Threads |-> {}]

Add(t, s) ==
    /\ directory' = [directory EXCEPT ![IdOf[s]] = s]
    /\ Answers(t, {})

Remove(t, s) ==
    /\ directory' = [directory EXCEPT ![IdOf[s]] = NoSession]
    /\ Answers(t, {})

Find(t, i) ==
    /\ Answers(t, {directory[i]} \ {NoSession})
    /\ UNCHANGED directory

Walk(t) ==
    /\ Answers(t, Listed(directory))
    /\ UNCHANGED directory

Next ==
    \E t \in Threads :
        \/ \E s \in Sessions : Add(t, s) \/ Remove(t, s)
        \/ \E i \in Ids : Find(t, i)
        \/ Walk(t)

Spec == Init /\ [][Next]_vars
=============================================================================
