-------------------------- MODULE WebhookReceiver --------------------------
(***************************************************************************)
(* The webhook server: a POST is checked, answered 202, and its pipeline    *)
(* runs afterwards as a background task of the same process.  The payload   *)
(* lives in memory until the task has written it to a file, and the file    *)
(* until the pipeline is through with it.                                   *)
(***************************************************************************)
EXTENDS RunStore

CONSTANT Hooks  \* the POSTs; each one's run has its name

VARIABLES
    answer,   \* POST -> what the sender was told
    files,    \* POSTs whose temporary file exists
    disk      \* history: a write of a temporary file failed

hookVars == <<answer, files, disk>>

HookInit ==
    /\ answer = [h \in Hooks |-> "none"]
    /\ files = {}
    /\ disk = "fine"

\* receive_trivy_webhook: a 503, 401 or 400 enqueues nothing.
ReceiveTrivyWebhook(h) ==
    /\ answer[h] = "none"
    /\ \E code \in {"accepted", "refused"} : answer' = [answer EXCEPT ![h] = code]
    /\ UNCHANGED <<files, disk, storeVars>>

\* The background task writes the payload, outside the try.
WritePayload(h) ==
    /\ answer[h] = "accepted"
    /\ Prepare(h)
    /\ files' = files \cup {h}
    /\ UNCHANGED <<answer, disk>>

WritePayloadFails(h) ==
    /\ answer[h] = "accepted" /\ phase[h] = "none"
    /\ phase' = [phase EXCEPT ![h] = "failed"]
    /\ files' = files \cup {h}
    /\ disk' = "failed"
    /\ UNCHANGED <<answer, node, saved, next>>

\* Mutant: the file is removed on success only.
HookRaises_keeps(h) == Raises(h) /\ UNCHANGED hookVars

\* Whatever the pipeline raises is logged; the file goes in any case.
HookRaises(h) ==
    /\ Raises(h)
    /\ files' = files \ {h}
    /\ UNCHANGED <<answer, disk>>

HookEnds(h) ==
    /\ ReachEnd(h)
    /\ files' = files \ {h}
    /\ UNCHANGED <<answer, disk>>

HookGoesOn(h) ==
    /\ EnterGraph(h) \/ NodeEnds(h) \/ NextNode(h)
    /\ UNCHANGED hookVars

\* The server restarts: what it had accepted and not finished is gone, and a
\* sender without an answer may try again.
ServerRestarts ==
    /\ \E h \in Hooks : phase[h] \in Alive \/ (answer[h] = "accepted" /\ phase[h] = "none")
    /\ phase' = [r \in Runs |->
          IF r \in Hooks /\ (phase[r] \in Alive \/ (answer[r] = "accepted" /\ phase[r] = "none"))
          THEN "dead" ELSE phase[r]]
    /\ UNCHANGED <<node, saved, next, hookVars>>

HookWork(h) ==
    \/ WritePayload(h) \/ WritePayloadFails(h)
    \/ HookGoesOn(h) \/ HookRaises(h) \/ HookEnds(h)

HookNext ==
    \/ \E h \in Hooks : ReceiveTrivyWebhook(h) \/ HookWork(h)
    \/ ServerRestarts

-----------------------------------------------------------------------------
(* Properties *)

\* A temporary report on disk belongs to a task at work, or is what a restart
\* or a failing disk left behind; nothing else leaks one.
LeftFilesHaveAReason ==
    \A h \in files : phase[h] \in Alive \/ phase[h] = "dead" \/ disk = "failed"
=============================================================================
