----------------------------- MODULE Registers -----------------------------
(***************************************************************************)
(* Access to the bit fields of a register (src/decept/hardware/regs/       *)
(* regs.h), and the registers whose fields are of different kinds, with    *)
(* the masks the imxrt1060 headers give them. A register's value is the    *)
(* set of its bits that are 1.                                             *)
(*                                                                         *)
(* An assignment reads the register, unless its mask is zero, and then     *)
(* writes all of it: the hardware may raise a flag in between.             *)
(***************************************************************************)
EXTENDS Naturals, FiniteSets

CONSTANTS Registers,      \* the names of those that are checked
          MaxAssignments  \* bound: how many assignments are made

VARIABLES reg,     \* the register,
          val,     \* its value,
          access,  \* the assignment under way: its field, operator and operand
          read,    \* what the assignment has read,
          written, \* what the last one wrote,
          made,    \* bound: the assignments that were made,
          raised   \* and whether the hardware has raised a flag yet

registerVars == <<reg, val, access, read, written, made, raised>>

-----------------------------------------------------------------------------
(* Fields: AssignMask, AssignSet, and what a written 1 does. *)

\* shiftedMask(), from the top bit of a field to its lowest.
F(high, low) == low .. high

\* Fields that are read and written, and nothing else in the register.
Plain(fields) ==
  [rw |-> UNION fields, w1c |-> {}, wo |-> {}, keyField |-> {}, key |-> {}, one |-> {},
   fields |-> {[bits |-> f, mask |-> f, set |-> {}] : f \in fields}]

\* With bits that every assignment must set.
WithOne(fields, one) ==
  [Plain(fields) EXCEPT !.one = one,
     !.fields = {[bits |-> f, mask |-> f, set |-> one] : f \in fields}]

\* Fields beside flags that a 1 clears and commands that a 1 gives: every mask takes
\* in the flags and the commands, so that they are written as 0.
Guarded(fields, w1c, wo) ==
  [rw |-> UNION fields, w1c |-> UNION w1c, wo |-> UNION wo,
   keyField |-> {}, key |-> {}, one |-> {},
   fields |-> {[bits |-> f, mask |-> f \cup UNION (w1c \cup wo), set |-> {}]
                 : f \in fields \cup w1c \cup wo}]

\* Nothing but flags and commands: the mask is 0 and the register is not read.
Direct(w1c, wo) ==
  [rw |-> {}, w1c |-> UNION w1c, wo |-> UNION wo, keyField |-> {}, key |-> {}, one |-> {},
   fields |-> {[bits |-> f, mask |-> {}, set |-> {}] : f \in w1c \cup wo}]

\* The hardware ignores a write whose key field is not the key: assignments set it,
\* except the one to the key field itself, which only the caller's operand fills.
Keyed(fields, wo, keyField, key) ==
  [rw |-> UNION fields, w1c |-> {}, wo |-> UNION wo, keyField |-> keyField, key |-> key,
   one |-> {},
   fields |-> {[bits |-> f, mask |-> f \cup keyField \cup UNION wo, set |-> key]
                 : f \in fields \cup wo}
              \cup {[bits |-> keyField, mask |-> keyField \cup UNION wo, set |-> {}]}]

Single(bits) == {{i} : i \in bits}

-----------------------------------------------------------------------------
(* The registers. Fields that are only read have no assignment: their member is *)
(* const (constify()), as that of PRIGROUP without the key in AIRCR (SCB.h).    *)

MCTL   == Guarded(Single({16, 14, 7}) \cup {F(3, 2), F(1, 0)}, {{12}}, {{6}})
SCMISC == Plain({F(19, 16), F(7, 0)})
SDCTL  == Plain({F(31, 16), F(15, 0)})
SCML   == Plain({F(31, 16), F(15, 0)})
SCR1L  == Plain({F(30, 16), F(14, 0)})
SCR2L  == Plain({F(29, 16), F(13, 0)})
SCR3L  == Plain({F(28, 16), F(12, 0)})
SCR4L  == Plain({F(27, 16), F(11, 0)})
SCR5L  == Plain({F(26, 16), F(10, 0)})
SCR6PL == Plain({F(26, 16), F(10, 0)})
HPCOMR == Guarded(Single({31, 19, 16, 13, 10, 9, 8, 5, 2, 1}), {}, Single({18, 17, 12, 4, 0}))
\* The header gives HP_TS the mask of a plain field, and says nothing of how it reads.
HPCR   == Plain(Single({27, 16, 8, 3, 2, 1, 0}) \cup {F(26, 24), F(14, 10), F(7, 4)})
HPSICR == Plain(Single({31, 5, 4, 3, 2, 1, 0}))
HPSVCR == Plain(Single({4, 3, 2, 1, 0}) \cup {F(31, 30), F(6, 5)})
HPSR   == Direct(Single({7, 1, 0}), {})
HPSVSR == Direct(Single({27, 5, 4, 3, 2, 1, 0}), {})
LPMKCR == Plain(Single({4, 3, 2}) \cup {F(1, 0)})
LPSR   == Direct(Single({19, 18, 17, 16, 3, 2, 1, 0}), {})
ICSR   == Direct({}, Single({31, 28, 27, 26, 25}))
AIRCR  == Keyed({F(10, 8)}, Single({2, 1, 0}), F(31, 16), {17, 19, 20, 21, 22, 23, 24, 26})
CFSR   == Direct(Single((0 .. 25) \ {2, 6, 14, 20, 21, 22, 23})
                   \cup {F(31, 16), F(15, 8), F(7, 0)}, {})
HFSR   == Direct(Single({31, 30, 1}), {})
DFSR   == Direct(Single({4, 3, 2, 1, 0}), {})
CGPR   == WithOne(Single({17, 16, 4, 0}) \cup {F(15, 14)}, {1})
CCGR0  == Plain({F(2 * k + 1, 2 * k) : k \in 0 .. 15})
CCGR6  == Plain({F(2 * k + 1, 2 * k) : k \in 0 .. 15})
CISR   == Direct(Single({26, 22, 20, 19, 17, 6, 0}), {})
GPR3   == Plain(Single({31, 15, 4}) \cup {F(11, 8), F(3, 0)})
GPR10  == Plain(Single({24, 20, 18, 17, 16, 8, 4, 2, 1, 0}) \cup {F(31, 25), F(15, 9)})

Layout ==
  [MCTL |-> MCTL, SCMISC |-> SCMISC, SDCTL |-> SDCTL, SCML |-> SCML, SCR1L |-> SCR1L,
   SCR2L |-> SCR2L, SCR3L |-> SCR3L, SCR4L |-> SCR4L, SCR5L |-> SCR5L, SCR6PL |-> SCR6PL,
   HPCOMR |-> HPCOMR, HPCR |-> HPCR, HPSICR |-> HPSICR, HPSVCR |-> HPSVCR,
   HPSR |-> HPSR, HPSVSR |-> HPSVSR, LPMKCR |-> LPMKCR, LPSR |-> LPSR, ICSR |-> ICSR,
   AIRCR |-> AIRCR, CFSR |-> CFSR, HFSR |-> HFSR, DFSR |-> DFSR, CGPR |-> CGPR,
   CCGR0 |-> CCGR0, CCGR6 |-> CCGR6, CISR |-> CISR, GPR3 |-> GPR3, GPR10 |-> GPR10]

ASSUME RegistersAssumption == Registers \subseteq DOMAIN Layout

-----------------------------------------------------------------------------
\* Mutant: the mask is the field's, without the flags and the commands.
OperandOfField(f, op, v, r) == (r \ f.bits) \cup f.set \cup v

\* What an assignment writes. The operand is masked to the field; "&=", "|=" and
\* "^=" read the field as well.
Operand(f, op, v, r) ==
  LET old == r \cap f.bits
      new == CASE op = "="  -> v
               [] op = "&=" -> old \cap v
               [] op = "|=" -> old \cup v
               [] op = "^=" -> (old \ v) \cup (v \ old)
  IN IF f.mask = {} THEN v \cup f.set ELSE (r \ f.mask) \cup new \cup f.set

\* "This should not be used for w1c fields and the like": these have "=" only.
Operators(r, f) == IF f.bits \subseteq Layout[r].rw THEN {"=", "&=", "|=", "^="} ELSE {"="}

None == [field |-> [bits |-> {}, mask |-> {}, set |-> {}], op |-> "none", v |-> {}]

RegisterInit ==
  /\ reg \in Registers
  /\ val \in {Layout[reg].one, Layout[reg].one \cup Layout[reg].rw,
              Layout[reg].one \cup Layout[reg].rw \cup Layout[reg].w1c}
  /\ access = None /\ read = {} /\ written = {} /\ made = 0 /\ raised = FALSE

\* The read of a read-modify-write. Commands and the key are not kept, and nothing
\* says how they read: as 0, or as 1.
BeginAssign(f, op, v, unkept) ==
  /\ access = None /\ made < MaxAssignments
  /\ made' = made + 1
  /\ access' = [field |-> f, op |-> op, v |-> v]
  /\ read' = IF f.mask = {} THEN {} ELSE val \cup unkept
  /\ written' = {}
  /\ UNCHANGED <<reg, val, raised>>

\* The write: plain bits take it, a 1 clears a flag or gives a command.
EndAssign ==
  LET w == Operand(access.field, access.op, access.v, read)
      l == Layout[reg]
      accepted == w \cap l.keyField = l.key
  IN /\ access # None
     /\ val' = IF accepted
               THEN (val \ (l.rw \cup l.one \cup (l.w1c \cap w))) \cup (w \cap (l.rw \cup l.one))
               ELSE val
     /\ written' = IF accepted THEN w ELSE {}
     /\ access' = None
     /\ read' = {}
     /\ UNCHANGED <<reg, made, raised>>

\* How the bits that are not kept may read, all alike.
Unkept(l) == {{}, l.wo \cup l.keyField}

\* The hardware raises a flag.
RaiseFlag(i) ==
  /\ ~raised /\ i \in Layout[reg].w1c \ val
  /\ val' = val \cup {i}
  /\ raised' = TRUE
  /\ UNCHANGED <<reg, access, read, written, made>>

RegisterNext ==
  \/ \E f \in Layout[reg].fields :
       \E op \in Operators(reg, f), v \in {{}, f.bits, f.bits \cap Layout[reg].key},
          unkept \in Unkept(Layout[reg]) :
         BeginAssign(f, op, v, unkept)
  \/ EndAssign
  \/ \E i \in 0 .. 31 : RaiseFlag(i)

RegisterSpec == RegisterInit /\ [][RegisterNext]_registerVars

-----------------------------------------------------------------------------
\* An assignment to a field reaches that field and nothing else of its register: no
\* other field changes, no other flag is cleared, not even one that was raised after
\* the register was read, no other command is given, not even one that reads as 1,
\* and reserved bits stay 1; and it does reach the field, with the key where there is
\* one, unless the field is that of the key itself, which keeps nothing (regs.h, and
\* the masks of the imxrt1060 headers).
OnlyThatField ==
  [][access # None /\ access' = None =>
       LET l == Layout[reg]
           f == access.field
           others == (l.rw \cup l.w1c) \ f.bits
       IN /\ val' \cap others = val \cap others
          /\ written' \cap l.wo \subseteq f.bits \cap access.v
          /\ (access.op = "=" /\ f.bits \cap l.keyField = {}) =>
               /\ (val' \cap l.rw \cap f.bits) \cup (written' \cap l.wo \cap f.bits)
                    = access.v \ l.w1c
               /\ val' \cap l.w1c \cap access.v = {}
          /\ l.one \subseteq val']_registerVars
=============================================================================
