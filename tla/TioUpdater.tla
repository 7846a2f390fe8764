---------------------------- MODULE TioUpdater ----------------------------
(***************************************************************************)
(* tio_updater: a task that uploads the state of the thing every interval  *)
(* seconds with kii_ti_put_state of KiiRequest, over a kii_t of its own.   *)
(* It waits second by second and asks the application before each whether  *)
(* to go on, except before the last one of an interval.                    *)
(***************************************************************************)
EXTENDS KiiRequest

CONSTANTS
    Intervals,   \* the update intervals, in seconds
    UploadTimes  \* how long a call of kii_ti_put_state can take, in seconds

ASSUME UpdaterAssumption == Intervals \subseteq Nat /\ UploadTimes \subseteq Nat

VARIABLES
    upc,       \* where _update_state is
    interval,  \* _update_interval
    remain,    \* interval_remain_sec
    since,     \* seconds since an upload was due
    took,      \* seconds that it took, 0 until it has returned
    apart,     \* seconds between the last two times an upload was due
    lasted,    \* seconds that the first of these two took
    stopping,  \* does the application want the task to end?
    failure    \* what was given to cb_err for the last upload

clock == <<since, took, apart, lasted>>
updater == <<upc, interval, remain, clock, stopping, failure>>

UpdaterInit ==
    /\ interval \in Intervals
    /\ upc = "off"
    /\ remain = interval
    /\ since = 0 /\ took = 0 /\ apart = interval /\ lasted = 0
    /\ stopping = FALSE
    /\ failure = "none"

(* tio_updater_start is given the author of an earlier onboarding; if the  *)
(* task is not created it returns, and can be called again.                *)
UpdaterStart ==
    /\ upc = "off"
    /\ upc' \in {"off", "loop"}
    /\ \E t \in Things : author' = [id |-> t, token |-> t]
    /\ UNCHANGED <<call, pc, todo, reqHeaders, nodes, rwBuff, reqSize, path,
                   cbRead, cbWrite, result, sent>>
    /\ UNCHANGED <<interval, remain, clock, stopping, failure>>

CheckInterval == 1

AskStop ==
    /\ upc = "loop" /\ remain > CheckInterval
    /\ stopping
    /\ upc' = "exit"
    /\ UNCHANGED <<interval, remain, clock, stopping, failure>>
    /\ UNCHANGED vars

Wait ==
    /\ upc = "loop" /\ remain > CheckInterval
    /\ ~stopping
    /\ remain' = remain - CheckInterval
    /\ since' = since + CheckInterval
    /\ UNCHANGED <<upc, interval, took, apart, lasted, stopping, failure>>
    /\ UNCHANGED vars

\* An upload is due after so many more seconds.
DueAfter(seconds) ==
    /\ apart' = since + seconds /\ lasted' = took
    /\ since' = 0 /\ took' = 0

\* Mutant: the interval does not start again.
UploadDueKeepsRemain ==
    /\ upc = "loop" /\ remain <= CheckInterval
    /\ upc' = "size"
    /\ DueAfter(remain)
    /\ UNCHANGED <<interval, remain, stopping, failure>>
    /\ UNCHANGED vars

\* Mutant: what is waited is a second, also when nothing remains.
UploadDueAfterCheck ==
    /\ upc = "loop" /\ remain <= CheckInterval
    /\ upc' = "size"
    /\ remain' = interval
    /\ DueAfter(CheckInterval)
    /\ UNCHANGED <<interval, stopping, failure>>
    /\ UNCHANGED vars

(* The rest of the interval is waited without asking.                      *)
UploadDue ==
    /\ upc = "loop" /\ remain <= CheckInterval
    /\ upc' = "size"
    /\ remain' = interval
    /\ DueAfter(remain)
    /\ UNCHANGED <<interval, stopping, failure>>
    /\ UNCHANGED vars

(* cb_state_size says that there is nothing to upload.                     *)
NoState ==
    /\ upc = "size"
    /\ upc' = "loop"
    /\ UNCHANGED <<interval, remain, clock, stopping, failure>>
    /\ UNCHANGED vars

PutState == [api |-> "kii_ti_put_state", asks |-> {}, thing |-> "none",
             appended |-> 0, body |-> FALSE]

StartUpload ==
    /\ upc = "size"
    /\ upc' = "upload"
    /\ Begin(PutState)
    /\ UNCHANGED <<interval, remain, clock, stopping, failure>>

Uploading ==
    /\ upc = "upload"
    /\ BuildStep \/ PerformStep
    /\ UNCHANGED updater

\* Mutant: the task ends with an upload that failed.
UploadedOrExit ==
    /\ upc = "upload" /\ pc = "idle"
    /\ upc' = IF result = "OK" THEN "loop" ELSE "exit"
    /\ failure' = IF result = "OK" THEN "none" ELSE result
    /\ took' \in UploadTimes /\ since' = since + took'
    /\ UNCHANGED <<interval, remain, apart, lasted, stopping>>
    /\ UNCHANGED vars

(* kii_ti_put_state has returned, after however long: a failure is told    *)
(* and nothing else done.                                                  *)
Uploaded ==
    /\ upc = "upload" /\ pc = "idle"
    /\ upc' = "loop"
    /\ failure' = IF result = "OK" THEN "none" ELSE result
    /\ took' \in UploadTimes /\ since' = since + took'
    /\ UNCHANGED <<interval, remain, apart, lasted, stopping>>
    /\ UNCHANGED vars

(* cb_task_exit is called and the task returns.                            *)
UpdaterExit ==
    /\ upc = "exit"
    /\ upc' = "done"
    /\ UNCHANGED <<interval, remain, clock, stopping, failure>>
    /\ UNCHANGED vars

StopAsked ==
    /\ ~stopping /\ stopping' = TRUE
    /\ UNCHANGED <<upc, interval, remain, clock, failure>>
    /\ UNCHANGED vars

UpdaterTask ==
    \/ AskStop \/ Wait \/ UploadDue \/ NoState
    \/ StartUpload \/ Uploading \/ Uploaded
    \/ UpdaterExit

UpdaterNext == UpdaterStart \/ UpdaterTask \/ StopAsked

---------------------------------------------------------------------------
(* From the return of an upload, whether it failed, or was left out for    *)
(* want of a state, to the time the next one is due the task waits exactly *)
(* one interval, although it waits it in two different ways.  The time an  *)
(* upload takes is not made up for: uploads are apart by as much more.     *)
UploadsPaced == apart = interval + lasted /\ since <= interval + took

(* Whatever the server answers and wherever a request fails, the task goes *)
(* on to the next interval, until the application wants it to end: a       *)
(* failed upload ends neither the task nor the ones to come.               *)
UploadsGoOn == upc = "upload" ~> (upc = "size" \/ stopping)

(* With an interval of two seconds or more the task ends when the          *)
(* application wants it to.                                                *)
UpdaterStops == stopping /\ upc \notin {"off", "done"} /\ interval >= 2 ~> upc = "done"
===========================================================================
