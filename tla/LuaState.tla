------------------------------ MODULE LuaState ------------------------------
(***************************************************************************)
(* The state of a program that is compiled and run: what the parser        *)
(* (LuaParser, LuaStatements) works on, what the virtual machine (LuaVM)   *)
(* works on, and the program itself.  A step of the one leaves the state   *)
(* of the other alone.                                                     *)
(***************************************************************************)
EXTENDS LuaCode

CONSTANTS Programs,    \* syntax trees
          StackSize    \* slots of the Lua stack the programs need

VARIABLES
  toks,      \* the tokens from the current one on
  goals,     \* what the recursive descent has left to do
  c,         \* the function being compiled (c.fs), the expression read last (c.e)
  outer,     \* the functions around it, the nearest first
  nexps,     \* how many expressions explist1 has read
  frames,    \* the CallInfos of the running functions, the innermost first
  stack,     \* the Lua stack
  top,       \* its first free slot after an open result
  heap,      \* closures, upvalues, tables and global variables
  result,    \* whether the main function runs, and what it has returned
  program    \* the syntax tree of the program

parser == <<toks, goals, c, outer, nexps>>
machine == <<frames, stack, top, heap, result>>
=============================================================================
