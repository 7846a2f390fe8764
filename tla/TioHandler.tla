---------------------------- MODULE TioHandler ----------------------------
(***************************************************************************)
(* tio_handler and its command parser: what the push task does with a      *)
(* pushed message.  The message is offered to the application's cb_push;   *)
(* if it is not taken it is read as a command, each of its actions is      *)
(* given to the application's cb_action, and the results are collected as  *)
(* the body of one request to the server, built with kii_api_call_start,   *)
(* kii_api_call_append_body and kii_api_call_run of KiiRequest.  The list  *)
(* of actions is read while the request is being built, so every error     *)
(* leaves in the middle of one.                                            *)
(*                                                                         *)
(* A command is the sequence of its aliases, an alias the sequence of its  *)
(* actions.  An element of either array may be an object ("object"), some  *)
(* other value ("other"), or an object that cannot be read ("bad").        *)
(***************************************************************************)
EXTENDS KiiRequest, SequencesExt

CONSTANTS
    Commands,  \* the pushed messages
    MaxPushes  \* bound on their number

\* A command has an array of aliases, and an alias an array of actions.
IsArray(a) == a \in Seq(Range(a))
IsCommand(c) ==
    /\ IsArray(c.aliases)
    /\ \A alias \in Range(c.aliases) : alias.kind = "object" => IsArray(alias.actions)

ASSUME HandlerAssumption == MaxPushes \in Nat
ASSUME CommandsAssumption == \A c \in Commands : IsCommand(c)

VARIABLES
    hpc,       \* where _handle_command is
    command,   \* the message
    aliasIdx, actionIdx,
    called,    \* the calls of cb_action for this command, with what they returned
    results,   \* the action results in the body of the request
    report,    \* "none", "sent": kii_api_call_run returned OK, or the code
               \* given to cb_err; "skipped" by cb_push
    pushes

handler == <<hpc, command, aliasIdx, actionIdx, called, results, report, pushes>>

HandlerInit ==
    /\ Init
    /\ hpc = "off"
    /\ command = [valid |-> FALSE, aliases |-> << >>]
    /\ aliasIdx = 1 /\ actionIdx = 1
    /\ called = << >> /\ results = << >>
    /\ report = "none"
    /\ pushes = 0

Goes(from, to) == hpc = from /\ hpc' = to

(* tio_handler_start is given the author of an earlier onboarding.         *)
Start ==
    /\ Goes("off", "wait")
    /\ \E t \in Things : author' = [id |-> t, token |-> t]
    /\ UNCHANGED <<call, pc, todo, reqHeaders, nodes, rwBuff, reqSize, path,
                   cbRead, cbWrite, result, sent>>
    /\ UNCHANGED <<command, aliasIdx, actionIdx, called, results, report, pushes>>

---------------------------------------------------------------------------
(* The application's cb_push takes the message or leaves it to the handler.*)
Push(c) ==
    /\ pushes < MaxPushes
    /\ hpc = "wait"
    /\ command' = c
    /\ pushes' = pushes + 1
    /\ called' = << >> /\ results' = << >>
    /\ aliasIdx' = 1 /\ actionIdx' = 1
    /\ \E skip \in BOOLEAN :
          /\ hpc' = IF skip THEN "wait" ELSE "parse"
          /\ report' = IF skip THEN "skipped" ELSE "none"
    /\ UNCHANGED vars

(* _handle_command returns an error, which goes to cb_err.                 *)
Err(code) ==
    /\ hpc' = "wait"
    /\ report' = code
    /\ UNCHANGED <<command, aliasIdx, actionIdx, called, results, pushes>>

ParseCommand ==
    /\ hpc = "parse"
    /\ IF command.valid
       THEN /\ hpc' = "start"
            /\ UNCHANGED <<command, aliasIdx, actionIdx, called, results, report, pushes>>
       ELSE Err("PARSE_JSON")
    /\ UNCHANGED vars

---------------------------------------------------------------------------
(* _start_result_request: the path is written into 256 bytes, then the     *)
(* request is started and the opening of its body is appended.  That       *)
(* always fits: a Content-Type longer than it was just formatted there.    *)

ResultRequest == [api |-> "kii_api_call", asks |-> {"ctype", "auth"},
                  thing |-> "none", appended |-> 0, body |-> FALSE]

ResultPathTooLarge ==
    /\ hpc = "start"
    /\ Err("TOO_LARGE_DATA")
    /\ UNCHANGED vars

StartResultRequest ==
    /\ Goes("start", "starting")
    /\ Begin(ResultRequest)
    /\ UNCHANGED <<command, aliasIdx, actionIdx, called, results, report, pushes>>

Starting ==
    /\ hpc = "starting"
    /\ BuildStep \/ Started
    /\ UNCHANGED handler

\* Mutant: the failure is taken for success.
StartFailsSilently ==
    /\ hpc = "starting" /\ pc = "idle"
    /\ hpc' = "wait"
    /\ UNCHANGED <<command, aliasIdx, actionIdx, called, results, report, pushes>>
    /\ UNCHANGED vars

StartFails ==
    /\ hpc = "starting" /\ pc = "idle"
    /\ Err(result)
    /\ UNCHANGED vars

AppendStart ==
    /\ Goes("starting", "actions")
    /\ AppendBody
    /\ UNCHANGED <<command, aliasIdx, actionIdx, called, results, report, pushes>>

---------------------------------------------------------------------------
(* The loops over the aliases and the actions.  An element that is not an  *)
(* object reads as the end of its array.                                   *)

Element(array, i) == IF i <= Len(array) THEN array[i].kind ELSE "other"
Alias  == Element(command.aliases, aliasIdx)
Action == Element(command.aliases[aliasIdx].actions, actionIdx)

(* The request that was started stays as it is: nothing ends it.           *)
Abandon ==
    /\ pc' = "idle"
    /\ UNCHANGED <<call, todo, reqHeaders, nodes, rwBuff, reqSize, path, cbRead,
                   cbWrite, author, result, sent>>

ParseFails ==
    /\ hpc = "actions"
    /\ Alias = "bad" \/ (Alias = "object" /\ Action = "bad")
    /\ Abandon
    /\ Err("PARSE_JSON")

(* cb_action runs the action.  It may tell it failed, with a message.      *)
CallAction ==
    /\ Goes("actions", "append")
    /\ Alias = "object" /\ Action = "object"
    /\ \E succeeded \in BOOLEAN :
          called' = Append(called,
              [name |-> command.aliases[aliasIdx].actions[actionIdx].name,
               succeeded |-> succeeded])
    /\ UNCHANGED vars
    /\ UNCHANGED <<command, aliasIdx, actionIdx, results, report, pushes>>

(* _append_action_result: one element for the array of results.            *)
AppendActionResult ==
    /\ Goes("append", "actions")
    /\ AppendBody
    /\ results' = Append(results, called[Len(called)])
    /\ actionIdx' = actionIdx + 1
    /\ UNCHANGED <<command, aliasIdx, called, report, pushes>>

\* Mutant: the result is left out and the loop goes on.
ResultTooLargeSkips ==
    /\ Goes("append", "actions")
    /\ actionIdx' = actionIdx + 1
    /\ UNCHANGED vars
    /\ UNCHANGED <<command, aliasIdx, called, results, report, pushes>>

(* The name of the action or the escaped message does not fit the buffers  *)
(* of the stack.                                                           *)
ResultTooLarge ==
    /\ hpc = "append"
    /\ Abandon
    /\ Err("TOO_LARGE_DATA")

(* _rw_buff is full.                                                       *)
BodyTooLargeForResults ==
    /\ hpc \in {"append", "close"}
    /\ AppendBodyFails
    /\ Err("TOO_LARGE_DATA")

\* Mutant: the index of the action outlives its alias.
NextAliasKeepsAction ==
    /\ hpc = "actions"
    /\ Alias = "object" /\ Action = "other"
    /\ aliasIdx' = aliasIdx + 1
    /\ UNCHANGED vars
    /\ UNCHANGED <<hpc, command, actionIdx, called, results, report, pushes>>

NextAlias ==
    /\ hpc = "actions"
    /\ Alias = "object" /\ Action = "other"
    /\ aliasIdx' = aliasIdx + 1
    /\ actionIdx' = 1
    /\ UNCHANGED vars
    /\ UNCHANGED <<hpc, command, called, results, report, pushes>>

LastAlias ==
    /\ Goes("actions", "close")
    /\ Alias = "other"
    /\ UNCHANGED vars
    /\ UNCHANGED <<command, aliasIdx, actionIdx, called, results, report, pushes>>

AppendEnd ==
    /\ Goes("close", "run")
    /\ AppendBody
    /\ UNCHANGED <<command, aliasIdx, actionIdx, called, results, report, pushes>>

(* kii_api_call_run; the status of the response is not looked at.          *)
RunResultRequest ==
    /\ Goes("run", "wait")
    /\ PerformStep
    /\ report' = IF result' = "OK" THEN "sent" ELSE result'
    /\ UNCHANGED <<command, aliasIdx, actionIdx, called, results, pushes>>

---------------------------------------------------------------------------
HandlerNext ==
    \/ Start
    \/ \E c \in Commands : Push(c)
    \/ ParseCommand
    \/ ResultPathTooLarge \/ StartResultRequest \/ Starting \/ StartFails
    \/ AppendStart
    \/ ParseFails \/ CallAction
    \/ AppendActionResult \/ ResultTooLarge \/ BodyTooLargeForResults
    \/ NextAlias \/ LastAlias
    \/ AppendEnd \/ RunResultRequest

HandlerSpec == HandlerInit /\ [][HandlerNext]_<<vars, handler>>

---------------------------------------------------------------------------
(* The elements of an array before the first that is not an object, and    *)
(* the actions of a command: those of its aliases, in order.               *)
Objects(array) ==
    CHOOSE n \in 0..Len(array) :
        /\ \A i \in 1..n : array[i].kind = "object"
        /\ n < Len(array) => array[n + 1].kind # "object"

ActionNames(alias) ==
    [i \in 1..Objects(alias.actions) |-> alias.actions[i].name]

ActionsOf(c) ==
    FlattenSeq([a \in 1..Objects(c.aliases) |-> ActionNames(c.aliases[a])])

CalledNames == [i \in 1..Len(called) |-> called[i].name]

(* A device does what it is told: whatever fails while the results are put *)
(* together, the calls of cb_action are the actions of the command, none   *)
(* twice, none left out and none out of order.                             *)
ActionsInOrder == IsPrefix(CalledNames, ActionsOf(command))

(* The request that reports a command tells of every action of it, with    *)
(* what cb_action returned, and its body is that report.                   *)
ResultsFaithful ==
    report = "sent" =>
        /\ CalledNames = ActionsOf(command)
        /\ results = called
        /\ sent.body = "body"

(* A command whose results did not reach khc with success is not silently  *)
(* dropped: cb_err was given a code.                                       *)
FailuresTold ==
    hpc = "wait" /\ pushes > 0 =>
        report \in {"sent", "skipped"} \cup (Codes \ {"OK"})
===========================================================================
