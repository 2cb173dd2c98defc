------------------------------- MODULE MCProcess -------------------------------
(* What the threads of a process that answer no request by themselves must get   *)
(* done: "acme" is two connection threads that order a certificate for one host, *)
(* "startup" the main thread, the listeners and the signal watcher for every     *)
(* command line that matters, with one renewal of the certificate's files.       *)
EXTENDS AcmeManager, Startup

VARIABLE part  \* "acme" or "startup"

mcVars == <<part, vars, startupVars>>

\* The part that does not run rests in one of its first states.
MCInit ==
    /\ Init /\ StartupInit
    /\ \/ part = "startup"
       \/ /\ part = "acme"
          /\ cfg = [h3 |-> FALSE, http |-> FALSE, user |-> Unset, group |-> FALSE,
                    chroot |-> FALSE, uid |-> "user", open |-> {}]

MCNext ==
    \/ part = "acme" /\ Next /\ UNCHANGED <<part, startupVars>>
    \/ part = "startup" /\ StartupNext /\ UNCHANGED <<part, vars>>

\* The fairness of both specifications, for the part that runs.
MCFairness ==
    /\ \A t \in Threads : WF_vars(part = "acme" /\ GetOrIssue(t))
    /\ WF_startupVars(part = "startup" /\ Main)
    /\ WF_startupVars(part = "startup" /\ Watcher)
    /\ \A t \in Servers : WF_startupVars(part = "startup" /\ Advance(t))
    /\ WF_startupVars(part = "startup" /\ (Stop("tcp") \/ Drained))

MCSpec == MCInit /\ [][MCNext]_mcVars /\ MCFairness
================================================================================
