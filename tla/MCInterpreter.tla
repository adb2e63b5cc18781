--------------------------- MODULE MCInterpreter ---------------------------
(***************************************************************************)
(* Interpreter on small guest programs.                                    *)
(***************************************************************************)
EXTENDS Interpreter

CONSTANT MaxGcs  \* bound on the entries of the Guarded Control Stack

MCRegs == {"lr", "x16", "x17", "x19", "x20", "x21", "x22", "x23", "x24", "x25",
           "x26"}

Plain(op) == [op |-> op, rd |-> "lr", rn |-> "lr", target |-> 0,
              auth |-> FALSE, params |-> {}, enable |-> FALSE]
Mov(rd, rn) == [Plain("mov") EXCEPT !.rd = rd, !.rn = rn]
Jump(op, target) == [Plain(op) EXCEPT !.target = target]
Via(op, rn) == [Plain(op) EXCEPT !.rn = rn]
Trace(enable) == [Plain("trace") EXCEPT !.params = {"LOG_DISASM"},
                                        !.enable = enable]
Auth(insn) == [insn EXCEPT !.auth = TRUE]
Ret == Via("ret", "lr")

\* A function that calls another, a MOVPRFX pair, a store; at 8 an indirect
\* jump onto a landing pad.
NestingProgram ==
    << Mov("x19", "lr"), Jump("bl", 6), Plain("store"), Mov("lr", "x19"), Ret,
       Plain("movprfx"), Plain("sve"), Ret,
       Via("br", "x16"), Plain("bti_c"), Ret >>

NestingRanges == [a \in DOMAIN NestingProgram |-> IF a <= 8 THEN "r1" ELSE "r2"]
NestingRegs == [r \in MCRegs |-> IF r = "x16" THEN 10 ELSE 0]
NestingEntries == {1, 6, 9}
MCMasks == {{}, {"LOG_DISASM"}}

\* Every other form: both trace switches, a conditional and an authenticated
\* branch, an indirect call, a form without a leaf, data, and at 14 a word
\* that is not registered.
FormsProgram ==
    << Jump("bcond", 5), Trace(TRUE), Plain("data"), Plain("data"),
       Mov("x19", "lr"), Via("blr", "x16"), Mov("lr", "x19"), Trace(FALSE),
       Plain("data"), Plain("data"), Auth(Ret),
       Plain("unimplemented"), Ret, Plain("alu") >>
FormsRanges == [a \in DOMAIN FormsProgram |-> IF a < 14 THEN "r1" ELSE None]
FormsRegs == [r \in MCRegs |-> IF r = "x16" THEN 13 ELSE 0]
FormsDiverts == {0, 3, 14, Misaligned}

\* Functions three deep: 1 calls 5, 5 calls 9, and 9 stores.  From 13 on,
\* indirect branches of every BType onto landing pads that take them, pads
\* that do not, an authenticating hint and a plain instruction.  40 is for
\* nested runs: it jumps to a null register and does not return.
CallsProgram ==
    << Mov("x19", "lr"), Jump("bl", 5), Mov("lr", "x19"), Ret,
       Mov("x20", "lr"), Jump("bl", 9), Mov("lr", "x20"), Ret,
       Plain("store"), Ret, Plain("alu"), Ret,
       Via("br", "x16"), Via("br", "x17"), Via("br", "x21"), Via("br", "x22"),
       Via("br", "x24"), Via("br", "x25"), Via("br", "x26"),
       Plain("bti_c"), Ret, Plain("bti"), Ret, Plain("autiasp"), Ret,
       Plain("alu"), Ret, Plain("bti_j"), Plain("paciasp"), Plain("bti_jc"), Ret,
       Mov("x19", "lr"), Via("blr", "x16"), Mov("lr", "x19"), Ret,
       Mov("x19", "lr"), Via("blr", "x25"), Mov("lr", "x19"), Ret,
       Plain("bti_jc"), Plain("store"), Plain("unimplemented"), Via("br", "x23") >>
CallsRanges == [a \in DOMAIN CallsProgram |-> "r1"]
CallsRegs == [r \in MCRegs |->
    CASE r \in {"x16", "x24"} -> 20 [] r = "x17" -> 22 [] r = "x21" -> 24
      [] r = "x22" -> 26 [] r = "x25" -> 28 [] r = "x26" -> 29 [] OTHER -> 0]

\* Its calls and returns match.
CallsConvention ==
    [main |-> 1 .. 39, side |-> 40 .. 43,
     home |-> [a \in DOMAIN CallsProgram |->
                 CASE a \in {2, 3, 33, 34, 37, 38} -> "x19" [] a \in {6, 7} -> "x20"
                   [] OTHER -> "lr"],
     keep |-> [a \in DOMAIN CallsProgram |->
                 CASE a \in 5 .. 8 \cup {20, 21} \cup 28 .. 31 -> {"x19"}
                   [] a \in {9, 10} -> {"x19", "x20"} [] OTHER -> {}],
     may |-> [r \in MCRegs |->
                IF r \in {"lr", "x19", "x20"} THEN {0, 3, 7, 34, 38}
                ELSE {CallsRegs[r]}]]

ASSUME CallsConventionKept ==
    Code = CallsProgram /\ HostMarkers = {} => CallingConvention(CallsConvention)

GcsBound == Len(gcs) <= MaxGcs
=============================================================================
