-------------------------------- MODULE Trap ----------------------------------
(***************************************************************************)
(* Changes of privilege: the descriptors of kernel/arch/x86/cpu and        *)
(* kernel/arch/x86/interrupt as the C code encodes them, the CPU that      *)
(* decodes them again, and the way of an interrupt through the stubs of    *)
(* isr.asm, the frame that the C handlers read, and back through iretd.    *)
(*                                                                         *)
(* cpu is the state of the processor.  Its eip is a place of the user      *)
(* program, the point the kernel's entry path has reached (STUB to         *)
(* LEAVE), HALTED after a panic, or SHUTDOWN when the CPU cannot use a     *)
(* descriptor or a stack.  stack is what lies on the kernel stack that the *)
(* TSS names, the last pushed word last; words, registers and addresses    *)
(* are numbers, which tell registers and places apart and nothing else.  A *)
(* 32-bit quantity that is cut up is the pair of its 16-bit halves.        *)
(***************************************************************************)
EXTENDS Integers, Sequences, SequencesExt

CONSTANTS
  Vectors,     \* the vectors that occur
  MAX_NESTED,  \* interrupts in progress at a time
  TSS_BASE     \* address of the TSS, [hi, lo]

X86_GDT_SELECTOR_KERN_CODE == 8
X86_GDT_SELECTOR_KERN_DATA == 16
X86_GDT_SELECTOR_USER_CODE == 24 + 3
X86_GDT_SELECTOR_USER_DATA == 32 + 3
X86_GDT_SELECTOR_TSS == 40

TSS_SIZE == 104    \* sizeof(struct x86_tss)

-----------------------------------------------------------------------------
(* A descriptor as x86_gdt_set_entry lays it out.                          *)
x86_gdt_set_entry(e) ==
  [limit_low |-> e.limit.lo, base_low |-> e.base.lo, base_mid |-> e.base.hi % 256,
   access_byte |-> e.access, limit_high_flags |-> (e.limit.hi % 16) + ((e.flags * 16) % 256),
   base_high |-> e.base.hi \div 256]

ACCESS_P == 128
ACCESS_RING3 == 96
ACCESS_S == 16
ACCESS_E == 8
ACCESS_RW_A == 2 + 1
Flat(access) == [base |-> [hi |-> 0, lo |-> 0], limit |-> [hi |-> 15, lo |-> 65535],
                 access |-> access, flags |-> 12]

(* The entries of x86_gdt_init.                                            *)
gdt ==
  LET null == [base |-> [hi |-> 0, lo |-> 0], limit |-> [hi |-> 0, lo |-> 0],
               access |-> 0, flags |-> 0]
      tss  == [base |-> TSS_BASE, limit |-> [hi |-> 0, lo |-> TSS_SIZE - 1],
               access |-> ACCESS_P + 9, flags |-> 0]
      kern_data == ACCESS_P + ACCESS_S + ACCESS_RW_A
      kern_code == kern_data + ACCESS_E
      entries == <<null, Flat(kern_code), Flat(kern_data),
                   Flat(kern_code + ACCESS_RING3), Flat(kern_data + ACCESS_RING3), tss>>
  IN  [i \in 1 .. 6 |-> x86_gdt_set_entry(entries[i])]

(* x86_tss_init; esp0 is the top of the stack that arch_process_start      *)
(* names.                                                                  *)
ss0 == X86_GDT_SELECTOR_KERN_DATA

(* External: what the CPU makes of a selector.                             *)
Descriptor(selector) ==
  LET raw == gdt[selector \div 8 + 1]
      a   == raw.access_byte
  IN  [present |-> a \div 128 = 1, dpl |-> (a \div 32) % 4, segment |-> (a \div 16) % 2 = 1,
       code |-> (a \div 8) % 2 = 1, writable |-> (a \div 2) % 2 = 1, type |-> a % 16,
       base |-> [hi |-> raw.base_high * 256 + raw.base_mid, lo |-> raw.base_low],
       limit |-> [hi |-> raw.limit_high_flags % 16, lo |-> raw.limit_low],
       pages |-> raw.limit_high_flags \div 128 = 1]

Rpl(selector) == selector % 4
Known(selector) == selector >= 8 /\ selector \div 8 < Len(gdt)

CodeAt(selector, level) ==
  Known(selector) /\ LET d == Descriptor(selector)
                     IN  d.present /\ d.segment /\ d.code /\ d.dpl = level
StackAt(selector, level) ==
  /\ Known(selector) /\ Rpl(selector) = level
  /\ LET d == Descriptor(selector)
     IN  d.present /\ d.segment /\ ~ d.code /\ d.writable /\ d.dpl = level

(* ltr accepts the descriptor and finds the TSS there.                     *)
TaskReady ==
  LET d == Descriptor(X86_GDT_SELECTOR_TSS)
  IN  /\ d.present /\ ~ d.segment /\ d.type = 9
      /\ d.base = TSS_BASE /\ ~ d.pages /\ d.limit = [hi |-> 0, lo |-> TSS_SIZE - 1]

-----------------------------------------------------------------------------
X86_IDT_GATE_INT_32 == 14
X86_IDT_GATE_TRAP_32 == 15
X86_IDT_FLAG_BUILD(dpl, type) == 128 + dpl * 32 + type

(* The flags of the gates that x86_isr_init sets.                          *)
x86_isr_init(v) ==
  IF v \in {1, 3, 4} THEN X86_IDT_FLAG_BUILD(0, X86_IDT_GATE_TRAP_32)
  ELSE IF v = 128 THEN X86_IDT_FLAG_BUILD(3, X86_IDT_GATE_TRAP_32)
  ELSE X86_IDT_FLAG_BUILD(0, X86_IDT_GATE_INT_32)

GateDpl(v) == (x86_isr_init(v) \div 32) % 4
KeepsIf(v) == x86_isr_init(v) % 16 = X86_IDT_GATE_TRAP_32

(* External: the exceptions for which the CPU pushes an error code.        *)
CpuPushesError == {8, 10, 11, 12, 13, 14, 17, 21, 29, 30}

IsrError_No17 == {8, 10, 11, 12, 13, 14, 21, 29, 30}

(* The stubs made with ISR_ERROR.                                          *)
IsrError == {8, 10, 11, 12, 13, 14, 17, 21, 29, 30}

-----------------------------------------------------------------------------
VARIABLES
  cpu,     \* eip, cs, eflags, esp (of user mode), ss, gp, segs
  stack,
  reported,  \* what panic was called with, NoReport before
  saved    \* ghost: for each interrupt in progress, what it interrupted

trap_vars == <<cpu, stack, reported, saved>>

NoReport == [type |-> "none", ip |-> 0, user_mode |-> FALSE]

(* The points of the entry path; user addresses are below.                 *)
KERNEL_TEXT == 1000
STUB(v) == KERNEL_TEXT + v
HANDLER == KERNEL_TEXT + 256
LEAVE == KERNEL_TEXT + 257
HALTED == KERNEL_TEXT + 258
SHUTDOWN == KERNEL_TEXT + 259

EFLAGS_IF == 512
EFLAGS_RESERVED == 2
IfSet(c) == c.eflags \div EFLAGS_IF = 1
Segs(selector) == [i \in 1 .. 4 |-> selector]    \* ds, es, fs, gs
Gp(x) == [i \in 1 .. 7 |-> x + i]    \* eax, ecx, edx, ebx, ebp, esi, edi
Level(c) == Rpl(c.cs)

Kmain == [eip |-> KERNEL_TEXT, cs |-> X86_GDT_SELECTOR_KERN_CODE, eflags |-> EFLAGS_RESERVED,
          esp |-> 0, ss |-> X86_GDT_SELECTOR_KERN_DATA, gp |-> Gp(0),
          segs |-> Segs(X86_GDT_SELECTOR_KERN_DATA)]

Popped(st, n) == SubSeq(st, 1, Len(st) - n)

(* The k-th word above the stack pointer.                                  *)
Word(st, k) == IF k < Len(st) THEN st[Len(st) - k] ELSE 0

Broken(c) == [c EXCEPT !.eip = SHUTDOWN]

(* External: iret.  A return to an outer level also takes ESP and SS, and  *)
(* clears the data segment registers that level may not use.               *)
Iret(c, st) ==
  LET level == Rpl(Word(st, 1))
      outer == level > Level(c)
      back  == [c EXCEPT !.eip = Word(st, 0), !.cs = Word(st, 1), !.eflags = Word(st, 2)]
      user  == [back EXCEPT !.esp = Word(st, 3), !.ss = Word(st, 4),
                  !.segs = [i \in 1 .. 4 |->
                     IF Known(c.segs[i]) /\ Descriptor(c.segs[i]).dpl < level
                       THEN 0 ELSE c.segs[i]]]
  IN  IF ~ CodeAt(Word(st, 1), level) \/ level < Level(c) \/ (outer /\ ~ StackAt(Word(st, 4), level))
        THEN [cpu |-> Broken(c), stack |-> st]
      ELSE IF outer THEN [cpu |-> user, stack |-> Popped(st, 5)]
      ELSE [cpu |-> back, stack |-> Popped(st, 3)]

(* arch_process_stack_prepare: the frame that the first iret takes.        *)
FirstFrame(entry, user_esp) ==
  <<X86_GDT_SELECTOR_USER_DATA, user_esp, EFLAGS_IF + EFLAGS_RESERVED,
    X86_GDT_SELECTOR_USER_CODE, entry>>

ErrorCode(v) == 700 + v

(* External: the CPU takes vector v.  Coming from an outer level it first  *)
(* goes to the stack of the TSS; mapped says whether that stack is there.  *)
Deliver(v, error, mapped) ==
  LET outer == Level(cpu) > 0
      frame == (IF outer THEN <<cpu.ss, cpu.esp>> ELSE <<>>)
                 \o <<cpu.eflags, cpu.cs, cpu.eip>>
                 \o (IF error THEN <<ErrorCode(v)>> ELSE <<>>)
      usable == /\ CodeAt(X86_GDT_SELECTOR_KERN_CODE, 0) /\ mapped
                /\ outer => TaskReady /\ StackAt(ss0, 0)
  IN  /\ UNCHANGED reported
      /\ IF usable
           THEN /\ stack' = (IF outer THEN <<>> ELSE stack) \o frame
                /\ cpu' = [cpu EXCEPT !.eip = STUB(v), !.cs = X86_GDT_SELECTOR_KERN_CODE,
                             !.ss = IF outer THEN ss0 ELSE @,
                             !.eflags = IF KeepsIf(v) THEN @ ELSE EFLAGS_RESERVED]
           ELSE cpu' = Broken(cpu) /\ UNCHANGED stack
      /\ saved' = Append(saved, [cpu |-> cpu, stack |-> stack, vector |-> v,
                                 error |-> IF error THEN ErrorCode(v) ELSE 0])

Running == cpu.eip \notin {HALTED, SHUTDOWN}
CanNest == Running /\ Len(saved) < MAX_NESTED

(* A hardware interrupt; an NMI, which no flag masks; a fault of the user  *)
(* program; its int n, for which the gate must let it pass.                *)
HardwareInterrupt(v, mapped) ==
  /\ CanNest /\ v \in 32 .. 47 /\ IfSet(cpu)
  /\ Deliver(v, FALSE, mapped)

Nmi(mapped) == CanNest /\ 2 \in Vectors /\ Deliver(2, FALSE, mapped)

Fault(v, mapped) ==
  /\ CanNest /\ Level(cpu) = 3 /\ v < 32 /\ v # 2
  /\ Deliver(v, v \in CpuPushesError, mapped)

SoftwareInterrupt(v, mapped) ==
  /\ CanNest /\ Level(cpu) = 3
  /\ IF GateDpl(v) >= Level(cpu) THEN Deliver(v, FALSE, mapped) ELSE Deliver(13, TRUE, mapped)

(* Between two interrupts the user program has used its registers.         *)
UserStep ==
  /\ Level(cpu) = 3 /\ cpu.eip # KERNEL_TEXT - 1
  /\ cpu' = [cpu EXCEPT !.eip = KERNEL_TEXT - 1, !.esp = @ - 1,
               !.gp = Gp(10),
               !.segs = [i \in 1 .. 4 |-> IF i % 2 = 1 THEN X86_GDT_SELECTOR_USER_DATA ELSE @[i]]]
  /\ UNCHANGED <<stack, reported, saved>>

-----------------------------------------------------------------------------
(* The stub of vector v and x86_isr_common up to the call; pushad has the  *)
(* stack pointer in the middle.                                            *)
x86_isr_common(v) ==
  /\ cpu.eip = STUB(v)
  /\ stack' = stack \o (IF v \in IsrError THEN <<>> ELSE <<0>>) \o <<v>>
                     \o SubSeq(cpu.gp, 1, 4) \o <<Len(stack)>> \o SubSeq(cpu.gp, 5, 7)
                     \o cpu.segs
  /\ cpu' = [cpu EXCEPT !.eip = HANDLER, !.segs = Segs(X86_GDT_SELECTOR_KERN_DATA)]
  /\ UNCHANGED <<reported, saved>>

(* struct x86_interrupt_frame, read from the stack pointer upwards.        *)
IsrFrame(st) ==
  [segs |-> [i \in 1 .. 4 |-> Word(st, 4 - i)], 
   gp |-> [i \in 1 .. 7 |-> Word(st, IF i < 5 THEN 12 - i ELSE 11 - i)],
   int_no |-> Word(st, 12), err_code |-> Word(st, 13), eip |-> Word(st, 14),
   cs |-> Word(st, 15), eflags |-> Word(st, 16), user_esp |-> Word(st, 17), user_ss |-> Word(st, 18)]

x86_exception_translate(vector) == IF vector = 0 THEN "arithmetic" ELSE "unknown"

x86_exception_handler(f) ==
  [type |-> x86_exception_translate(f.int_no), ip |-> f.eip, user_mode |-> Rpl(f.cs) = 3]
x86_nmi_handler(f) == [NoReport EXCEPT !.type = "nmi"]

(* NMI and exceptions end in panic, which disables interrupts and halts;   *)
(* the rest goes to irq_dispatch, which returns.                           *)
x86_isr_handler ==
  LET f == IsrFrame(stack)
      vector == f.int_no % 256
  IN  /\ cpu.eip = HANDLER
      /\ IF vector < 32
           THEN /\ cpu' = [cpu EXCEPT !.eip = HALTED, !.eflags = EFLAGS_RESERVED]
                /\ reported' = IF vector = 2 THEN x86_nmi_handler(f) ELSE x86_exception_handler(f)
           ELSE /\ cpu' = [cpu EXCEPT !.eip = LEAVE, !.gp = Gp(20)]
                /\ UNCHANGED reported
      /\ UNCHANGED <<stack, saved>>

(* The rest of x86_isr_common: popad leaves out the stack pointer's word.  *)
isr_return ==
  LET f    == IsrFrame(stack)
      back == [cpu EXCEPT !.segs = f.segs, !.gp = f.gp]
      r    == Iret(back, Popped(stack, 14))
  IN  /\ cpu.eip = LEAVE
      /\ cpu' = r.cpu /\ stack' = r.stack
      /\ saved' = Front(saved) /\ UNCHANGED reported

Trap(mapped) ==
  \/ \E v \in Vectors : \/ HardwareInterrupt(v, mapped) \/ Fault(v, mapped)
                       \/ SoftwareInterrupt(v, mapped)
  \/ Nmi(mapped)
  \/ UserStep
  \/ \E v \in Vectors \cup {13} : x86_isr_common(v)
  \/ x86_isr_handler
  \/ isr_return

-----------------------------------------------------------------------------
(* When the C handler runs, the fields of its frame are the vector, the    *)
(* error code and the registers of what was interrupted, whether or not    *)
(* the CPU pushed an error code and the user stack.  A panic reports the   *)
(* exception and the place and mode it happened in.                        *)
FrameOfInterrupted ==
  LET was == Last(saved)
      f   == IsrFrame(stack)
  IN  /\ cpu.eip = HANDLER =>
           /\ f.int_no = was.vector /\ f.err_code = was.error
           /\ f.eip = was.cpu.eip /\ f.cs = was.cpu.cs /\ f.eflags = was.cpu.eflags
           /\ f.gp = was.cpu.gp /\ f.segs = was.cpu.segs
           /\ Level(was.cpu) = 3 => f.user_esp = was.cpu.esp /\ f.user_ss = was.cpu.ss
      /\ (reported # NoReport /\ was.vector # 2) =>
           /\ (reported.type = "arithmetic") <=> (was.vector = 0)
           /\ reported.ip = was.cpu.eip /\ reported.user_mode = (Level(was.cpu) = 3)

(* A handler returns to what it interrupted, with every register and the   *)
(* kernel stack as they were.                                              *)
ReturnsToInterrupted ==
  Len(saved') < Len(saved) => cpu' = Last(saved).cpu /\ stack' = Last(saved).stack
=============================================================================
