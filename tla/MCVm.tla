-------------------------------- MODULE MCVm --------------------------------
(* Every program of two instructions out of a repertoire, followed by a    *)
(* third that tests the flags, a stop and two words of data.               *)
EXTENDS Vm

MCChars == {-1, 65, 200}

Wide24 == [instr |-> 24, op |-> 4, rn |-> 3, par |-> 3]

MCOs == [start |-> 32, words |-> <<0, 38, 38, 38, 38, 38, 49600>>]

\* ADD R0,R0,#-1; ADD R7,R0,R0; AND R1,R1,#0; NOT R7,R1; LEA R7,#2; LEA R0,#1;
\* LD R0,#3; LD R7,#4; LDI R2,#3; LDR R3,R7,#0; ST R0,#1; STI R7,#3;
\* STR R0,R7,#0; JMP R7; JSRR R7; JSR #0; BRnz #1; GETC; OUT; TRAP x125;
\* RES (MUL, DIV, SLLI, SRA); RTI.
Repertoire ==
  {4159, 7680, 21088, 40511, 60930, 57345, 8195, 11780, 41475, 26560, 12289,
   48643, 29120, 49600, 16832, 18432, 3073, 61472, 61473, 61733,
   53472, 53392, 53289, 53440, 32768}

Tests == {512, 2048, 1024}

MCFiles ==
  {[start |-> 12288, words |-> <<p, q, t, 0, 65030, 65534, 65024>>] :
     p \in Repertoire, q \in Repertoire, t \in Tests}
  \cup {[start |-> 65533, words |-> <<0, 0>>], [start |-> 65533, words |-> <<0, 0, 0>>],
        [start |-> 65532, words |-> <<5120, 0>>]}
=============================================================================
