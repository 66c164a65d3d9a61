------------------------------- MODULE MCText -------------------------------
(***************************************************************************)
(* The pure functions of the library on bounded inputs: a behaviour grows  *)
(* an input for one of them, and the invariants of the three modules       *)
(* compare what the functions make of it with independent definitions.     *)
(***************************************************************************)
EXTENDS MCVModuleText, MCDemangle, MCStackDump

NoVModule == pattern = <<>> /\ matched = <<>> /\ flag = <<>>

NoDump == frames = <<>> /\ depth = 0 /\ symbol = <<>>

TextInit == VModuleInit /\ DemangleInit /\ DumpInit

TextNext ==
  \/ opening = <<>> /\ NoDump /\ VModuleNext /\ UNCHANGED <<demangleVars, dumpVars>>
  \/ opening # <<>> /\ DemangleNext /\ UNCHANGED <<vmoduleVars, dumpVars>>
  \/ opening = <<>> /\ NoVModule /\ DumpNext /\ UNCHANGED <<vmoduleVars, demangleVars>>

TextSpec == TextInit /\ [][TextNext]_<<vmoduleVars, demangleVars, dumpVars>>

FrameAt == <<10, 12, 16>>

(* The smallest, both sorts of digits, and the widest that Width 6 allows. *)
PointerTexts ==
  {[number |-> 0, hex |-> <<"0">>], [number |-> 9, hex |-> <<"9">>],
   [number |-> 10, hex |-> <<"a">>], [number |-> 16, hex |-> <<"1", "0">>],
   [number |-> 2748, hex |-> <<"a", "b", "c">>],
   [number |-> 65295, hex |-> <<"f", "f", "0", "f">>]}

(* Into an encoding, into template arguments, into a local name. *)
OpeningTexts == {Text("_Z"), Text("_ZN1aI"), Text("_ZZ1av")}

=============================================================================
