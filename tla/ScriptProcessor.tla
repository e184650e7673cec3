--------------------------- MODULE ScriptProcessor ---------------------------
(***************************************************************************)
(* processors/script_processor.cpp: one call of a message's Lua function,  *)
(* process_can_frame, in terms of the Lua stack.  A message's Lua state    *)
(* lives as long as its configuration and Process is called on it with     *)
(* every send interval, so an unbalanced path would fill the stack after   *)
(* enough calls; Lua guarantees StackSlots slots.                          *)
(*                                                                         *)
(* CanbusScheduler uses the three outcomes of a call: nothing (KeepFrame), *)
(* bytes (ScriptReturns) and an exception (ScriptFails).                   *)
(***************************************************************************)
EXTENDS Naturals

CONSTANTS
    Messages,     \* message configurations
    Scripted,     \* the ones with a lua_script
    Loaded,       \* the ones whose script has a Lua state
    NoMessage,    \* Process is not running
    StackSlots    \* bound of the library: LUA_MINSTACK

ASSUME ScriptAssumption ==
    /\ Scripted \subseteq Messages
    /\ Loaded \subseteq Scripted
    /\ NoMessage \notin Messages
    /\ StackSlots \in Nat /\ StackSlots >= 3

VARIABLES
    depth,     \* the number of values on each message's Lua stack
    top,       \* the kind of the value on top, where Process looks at it
    global,    \* the kind of the global process_can_frame of each state
    spc, cur,  \* where Process is, and for which message
    outcome    \* of the last call: "empty", "bytes" or "exception"

scriptVars == <<depth, top, global, spc, cur, outcome>>

Kinds    == {"function", "string", "number", "other"}
ScriptPC == {"idle", "getglobal", "isfunction", "pushargs", "pcall", "failed",
             "isstring", "copy"}
Outcomes == {"empty", "bytes", "exception"}

ScriptInit ==
    /\ depth = [m \in Messages |-> 0]
    /\ top = "other"
    /\ global \in [Messages -> {"function", "other"}]
    /\ spc = "idle" /\ cur = NoMessage
    /\ outcome = "empty"

Push(n) == depth' = [depth EXCEPT ![cur] = @ + n]
Pop(n)  == depth' = [depth EXCEPT ![cur] = @ - n]

Leave(o) == spc' = "idle" /\ cur' = NoMessage /\ outcome' = o

(* Without a script or a state there is nothing to call.                   *)
Process(m) ==
    /\ spc = "idle"
    /\ IF m \in Loaded
         THEN spc' = "getglobal" /\ cur' = m /\ UNCHANGED outcome
         ELSE Leave("empty")
    /\ UNCHANGED <<depth, top, global>>

GetGlobal ==
    /\ spc = "getglobal"
    /\ Push(1) /\ top' = global[cur]
    /\ spc' = "isfunction"
    /\ UNCHANGED <<global, cur, outcome>>

NotAFunction ==
    /\ spc = "isfunction" /\ top # "function"
    /\ Pop(1)
    /\ Leave("empty")
    /\ UNCHANGED <<top, global>>

PushArguments ==
    /\ spc = "isfunction" /\ top = "function"
    /\ Push(2) /\ top' = "string"
    /\ spc' = "pcall"
    /\ UNCHANGED <<global, cur, outcome>>

(* lua_pcall(2, 1) takes the function and its arguments off the stack and   *)
(* leaves one value: the result, or the error.  The script may meanwhile    *)
(* have redefined the global.                                              *)
PCall ==
    /\ spc = "pcall"
    /\ depth' = [depth EXCEPT ![cur] = @ - 3 + 1]
    /\ top' \in Kinds
    /\ global' \in {[global EXCEPT ![cur] = k] : k \in {"function", "other"}}
    /\ spc' \in {"isstring", "failed"}
    /\ UNCHANGED <<cur, outcome>>

(* The error is popped before lua_tostring is asked for its text, which     *)
(* finds no value; std::string of the null pointer it gets throws, and the  *)
(* exception reaches the caller either way.                                *)
CallFailed ==
    /\ spc = "failed"
    /\ Pop(1)
    /\ Leave("exception")
    /\ UNCHANGED <<top, global>>

(* Mutant: the result that is no string stays on the stack.                *)
NotAStringKept ==
    /\ spc = "isstring" /\ top \notin {"string", "number"}
    /\ Leave("exception")
    /\ UNCHANGED <<depth, top, global>>

(* lua_isstring accepts a number, which lua_tolstring then converts.       *)
NotAString ==
    /\ spc = "isstring" /\ top \notin {"string", "number"}
    /\ Pop(1)
    /\ Leave("exception")
    /\ UNCHANGED <<top, global>>

IsAString ==
    /\ spc = "isstring" /\ top \in {"string", "number"}
    /\ top' = "string"
    /\ spc' = "copy"
    /\ UNCHANGED <<depth, global, cur, outcome>>

(* The bytes are copied before the value is popped; there may be none.     *)
Copy ==
    /\ spc = "copy"
    /\ Pop(1)
    /\ \E o \in {"bytes", "empty"} : Leave(o)
    /\ UNCHANGED <<top, global>>

ProcessStep ==
    \/ GetGlobal \/ NotAFunction \/ PushArguments \/ PCall \/ CallFailed
    \/ NotAString \/ IsAString \/ Copy

ScriptNext == ProcessStep \/ \E m \in Messages : Process(m)

ScriptSpec == ScriptInit /\ [][ScriptNext]_scriptVars

-----------------------------------------------------------------------------
(* Every variable has its type.                                            *)
ScriptTypeOK ==
    /\ depth \in [Messages -> Nat]
    /\ top \in Kinds
    /\ global \in [Messages -> {"function", "other"}]
    /\ spc \in ScriptPC /\ cur \in Messages \cup {NoMessage}
    /\ spc # "idle" <=> cur # NoMessage
    /\ outcome \in Outcomes

(* The values Process has on the stack at each point.                      *)
Owned == CASE spc \in {"idle", "getglobal"} -> 0
           [] spc = "pcall" -> 3
           [] OTHER -> 1

(* After any sequence of calls, failed ones included, every Lua stack is    *)
(* as it was before them: each path pops exactly what it pushed, and within *)
(* a call never more than the guaranteed slots are in use.                  *)
StackBalanced ==
    /\ \A m \in Messages : depth[m] = IF m = cur THEN Owned ELSE 0
    /\ \A m \in Messages : depth[m] <= StackSlots
=============================================================================
