------------------------------ MODULE Encoding ------------------------------
(***************************************************************************)
(* The instruction words of the C++ machine and of the wide assemblers: a  *)
(* format gives the number of bits of a word, of the operation code, of a  *)
(* register number and of the parameter of RES.  The macros compute in 64  *)
(* bits; a negative integer stands here for its complement, and is cut to  *)
(* its field when a word is made.                                          *)
(***************************************************************************)
EXTENDS Integers

Format16 == [instr |-> 16, op |-> 4, rn |-> 3, par |-> 3]

\* 1UL << n, a function so that a word may have any width.
Pow2[n \in Nat] == IF n = 0 THEN 1 ELSE 2 * Pow2[n - 1]

\* The low n bits of w, and n bits of w from bit lo on.
Cut(w, n) == w % Pow2[n]
Bits(w, lo, n) == (w \div Pow2[lo]) % Pow2[n]

\* The low n bits of w as a signed number.
INT_VALUE(w, n) == LET v == Cut(w, n) IN IF v >= Pow2[n - 1] THEN v - Pow2[n] ELSE v

----------------------------------------------------------------------------
\* Where the fields of a word are.
OperBit(f)  == f.instr - f.op
Num1Bit(f)  == OperBit(f) - f.rn
Num2Bit(f)  == Num1Bit(f) - f.rn
ParamBit(f) == Num2Bit(f) - f.par

OPER_CODE(w, f)                == Bits(w, OperBit(f), f.op)
INT_AFTER_OPER(w, f)           == INT_VALUE(w, OperBit(f))
INT_AFTER_OPER_FLAG(w, f)      == Bits(w, OperBit(f) - 1, 1) = 1
INT_AFTER_OPER_WITH_FLAG(w, f) == INT_VALUE(w, OperBit(f) - 1)
REG_NUM1(w, f)                 == Bits(w, Num1Bit(f), f.rn)
INT_AFTER_NUM1(w, f)           == INT_VALUE(w, Num1Bit(f))
REG_NUM2(w, f)                 == Bits(w, Num2Bit(f), f.rn)
REG_NUM3(w, f)                 == Cut(w, f.rn)
INT_AFTER_NUM2(w, f)           == INT_VALUE(w, Num2Bit(f))
INT_AFTER_NUM2_FLAG(w, f)      == Bits(w, Num2Bit(f) - 1, 1) = 1
INT_AFTER_NUM2_WITH_FLAG(w, f) == INT_VALUE(w, Num2Bit(f) - 1)
PARAM_AFTER_NUM2(w, f)         == Bits(w, ParamBit(f), f.par)
UINT_AFTER_PARAM(w, f)         == Cut(w, ParamBit(f))

----------------------------------------------------------------------------
(* Operation codes, by the shape of their instructions.                    *)
OPCODE == [BR  |-> 0, ADD |-> 1, LD  |-> 2,  ST  |-> 3,  JSR |-> 4,
           AND |-> 5, LDR |-> 6, STR |-> 7,  RTI |-> 8,  NOT |-> 9,
           LDI |-> 10, STI |-> 11, JMP |-> 12, RES |-> 13, LEA |-> 14,
           TRAP |-> 15]

Codes(names) == {OPCODE[n] : n \in names}

CODE_RI      == Codes({"BR", "LD", "ST", "LDI", "STI", "LEA"})
CODE_RRR_RRI == Codes({"ADD", "AND"})
CODE_RRI     == Codes({"RTI", "LDR", "STR"})

\* The parts of a word put together; the int fills what the fields leave.
HeadOf(f, oper)          == oper * Pow2[OperBit(f)]
Head1(f, oper, r1)     == HeadOf(f, oper) + r1 * Pow2[Num1Bit(f)]
Head2(f, oper, r1, r2) == Head1(f, oper, r1) + r2 * Pow2[Num2Bit(f)]

MAKE_RI(f, oper, r1, int) == Head1(f, oper, r1) + Cut(int, Num1Bit(f))
MAKE_RR(f, oper, r1, r2)  == Head2(f, oper, r1, r2)
MAKE_R2(f, oper, r2)      == HeadOf(f, oper) + r2 * Pow2[Num2Bit(f)]
MAKE_RRR(f, oper, r1, r2, r3)  == Head2(f, oper, r1, r2) + r3
MAKE_RRI(f, oper, r1, r2, int) == Head2(f, oper, r1, r2) + Cut(int, Num2Bit(f))
MAKE_RRI_WITH_FLAG(f, oper, r1, r2, int) ==
  Head2(f, oper, r1, r2) + Pow2[Num2Bit(f) - 1] + Cut(int, Num2Bit(f) - 1)
MAKE_RRPI(f, oper, r1, r2, par, int) ==
  Head2(f, oper, r1, r2) + par * Pow2[ParamBit(f)] + Cut(int, ParamBit(f))
\* The flag and the int are or-ed, and the mask of the int covers the flag.
MAKE_I_WITH_FLAG(f, oper, int) ==
  LET cut == Cut(int, OperBit(f))
      bit == Pow2[OperBit(f) - 1]
  IN  HeadOf(f, oper) + IF cut >= bit THEN cut ELSE cut + bit
MAKE_T(f, oper, int) == HeadOf(f, oper) + Cut(int, OperBit(f))

\* Mutant: the int of ADD and AND is cut with the mask of the other formats.
MutConvertAlu(w, f, t) ==
  LET oper == OPER_CODE(w, f)
      r1   == REG_NUM1(w, f)
      r2   == REG_NUM2(w, f)
  IN  IF INT_AFTER_NUM2_FLAG(w, f)
      THEN MAKE_RRI(t, oper, r1, r2, INT_AFTER_NUM2_WITH_FLAG(w, f))
      ELSE MAKE_RRR(t, oper, r1, r2, REG_NUM3(w, f))

INSTR_CONVERT_RRR_RRI(w, f, t) ==
  LET oper == OPER_CODE(w, f)
      r1   == REG_NUM1(w, f)
      r2   == REG_NUM2(w, f)
  IN  IF INT_AFTER_NUM2_FLAG(w, f)
      THEN MAKE_RRI_WITH_FLAG(t, oper, r1, r2, INT_AFTER_NUM2_WITH_FLAG(w, f))
      ELSE MAKE_RRR(t, oper, r1, r2, REG_NUM3(w, f))

(* The word w of format f in format t.  The checks of the maker macros are *)
(* empty in C, where the assembler uses this.                              *)
INSTR_CONVERT(w, f, t) ==
  LET oper == OPER_CODE(w, f)
      r1   == REG_NUM1(w, f)
      r2   == REG_NUM2(w, f)
  IN  CASE oper \in CODE_RI -> MAKE_RI(t, oper, r1, INT_AFTER_NUM1(w, f))
        [] oper \in CODE_RRR_RRI -> INSTR_CONVERT_RRR_RRI(w, f, t)
        [] oper = OPCODE.JSR ->
             IF INT_AFTER_OPER_FLAG(w, f)
             THEN MAKE_I_WITH_FLAG(t, oper, INT_AFTER_OPER_WITH_FLAG(w, f))
             ELSE MAKE_R2(t, oper, r2)
        [] oper \in CODE_RRI -> MAKE_RRI(t, oper, r1, r2, INT_AFTER_NUM2(w, f))
        [] oper = OPCODE.RES -> MAKE_RRPI(t, oper, r1, r2,
                                  PARAM_AFTER_NUM2(w, f), UINT_AFTER_PARAM(w, f))
        [] oper = OPCODE.NOT  -> MAKE_RR(t, oper, r1, r2)
        [] oper = OPCODE.JMP  -> MAKE_R2(t, oper, r2)
        [] oper = OPCODE.TRAP -> MAKE_T(t, oper, INT_AFTER_OPER(w, f))

(* What the executer of format f takes from a word: the operation, and the *)
(* operands it looks at.                                                   *)
Decoded(w, f) ==
  LET oper == OPER_CODE(w, f)
      r1   == REG_NUM1(w, f)
      r2   == REG_NUM2(w, f)
  IN  CASE oper \in CODE_RI -> <<oper, r1, INT_AFTER_NUM1(w, f)>>
        [] oper \in CODE_RRR_RRI ->
             IF INT_AFTER_NUM2_FLAG(w, f)
             THEN <<oper, r1, r2, "int", INT_AFTER_NUM2_WITH_FLAG(w, f)>>
             ELSE <<oper, r1, r2, "reg", REG_NUM3(w, f)>>
        [] oper = OPCODE.JSR ->
             IF INT_AFTER_OPER_FLAG(w, f)
             THEN <<oper, "int", INT_AFTER_OPER_WITH_FLAG(w, f)>>
             ELSE <<oper, "reg", r2>>
        [] oper \in CODE_RRI -> <<oper, r1, r2, INT_AFTER_NUM2(w, f)>>
        [] oper = OPCODE.RES ->
             <<oper, r1, r2, PARAM_AFTER_NUM2(w, f), UINT_AFTER_PARAM(w, f)>>
        [] oper = OPCODE.NOT  -> <<oper, r1, r2>>
        [] oper = OPCODE.JMP  -> <<oper, r2>>
        [] oper = OPCODE.TRAP -> <<oper, INT_AFTER_OPER(w, f)>>
=============================================================================
