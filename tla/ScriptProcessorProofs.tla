------------------------ MODULE ScriptProcessorProofs ------------------------
(* TLAPS proofs about ScriptProcessor, for any messages and scripts.       *)
EXTENDS ScriptProcessor, TLAPS

USE ScriptAssumption

ScriptInv == ScriptTypeOK /\ StackBalanced

(* Every Lua stack starts empty.                                           *)
LEMMA ScriptInitInv == ScriptInit => ScriptInv
  BY DEF ScriptInit, ScriptInv, ScriptTypeOK, StackBalanced, Owned, Kinds,
         ScriptPC, Outcomes

(* Every path of Process keeps the account of the stack.                   *)
LEMMA ScriptStep == ScriptInv /\ ScriptNext => ScriptInv'
<1> SUFFICES ASSUME ScriptInv, ScriptNext PROVE ScriptInv'
  OBVIOUS
<1> USE DEF ScriptInv, ScriptTypeOK, StackBalanced, Owned, Kinds, ScriptPC,
            Outcomes, Push, Pop, Leave
<1>1. CASE \E m \in Messages : Process(m)
  BY <1>1 DEF Process
<1>2. CASE GetGlobal
  BY <1>2 DEF GetGlobal
<1>3. CASE NotAFunction
  BY <1>3 DEF NotAFunction
<1>4. CASE PushArguments
  BY <1>4 DEF PushArguments
<1>5. CASE PCall
  BY <1>5 DEF PCall
<1>6. CASE CallFailed
  BY <1>6 DEF CallFailed
<1>7. CASE NotAString
  BY <1>7 DEF NotAString
<1>8. CASE IsAString
  BY <1>8 DEF IsAString
<1>9. CASE Copy
  BY <1>9 DEF Copy
<1> QED
  BY <1>1, <1>2, <1>3, <1>4, <1>5, <1>6, <1>7, <1>8, <1>9
     DEF ScriptNext, ProcessStep

(* After any number of calls of any scripts, failing ones included, every   *)
(* Lua stack holds what it held before, and never more than Lua guarantees. *)
THEOREM StackAlwaysBalanced == ScriptSpec => [](ScriptTypeOK /\ StackBalanced)
<1>1. ScriptInv /\ UNCHANGED scriptVars => ScriptInv'
  BY DEF ScriptInv, ScriptTypeOK, StackBalanced, Owned, scriptVars
<1> QED
  BY ScriptInitInv, ScriptStep, <1>1, PTL DEF ScriptSpec, ScriptInv
=============================================================================
