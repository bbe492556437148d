-------------------------- MODULE InterruptsProofs --------------------------
(***************************************************************************)
(* Theorems about Interrupts, for any lines of the first PIC, devices and  *)
(* threads.                                                                *)
(*                                                                         *)
(* The timer has the highest line, so the end of interrupt its handler     *)
(* sends before it leaves the dispatch, which names no line, always ends   *)
(* the interrupt of the timer: no other dispatch has to be known for it.   *)
(* That the tables match the PIC is inductive once the lists of devices    *)
(* are known to be without repetitions, and the types once the stack of a  *)
(* thread is known to hold the end of a dispatch for each interrupt on it. *)
(***************************************************************************)
EXTENDS Interrupts, SchedulerProofs

Place == {"test", "clear", "iret"}

\* Every list is one of devices, without repetitions.
TableOK ==
    /\ table \in [Line -> Seq(Device \cup {0})]
    /\ \A l \in Line : \A i, j \in DOMAIN table[l] : table[l][i] = table[l][j] => i = j

\* The lines in the registers, and those that are handled.
LinesOK ==
    /\ present \subseteq Line /\ imr \subseteq Line
    /\ \A l \in Line : /\ table[l] # << >> <=> l \in present
                       /\ l \in present <=> l \notin imr

PicOK ==
    /\ irr \subseteq Line /\ isr \subseteq Line
    /\ manual \in BOOLEAN
    /\ Timer \notin isr

\* A stack holds the end of one dispatch for each timer interrupt.
EndsOK ==
    /\ ends \in [AnyThread -> Seq(Place)]
    /\ \A t \in AnyThread : Len(ends[t]) = frames[t]

IInv == CoreOK /\ TableOK /\ LinesOK /\ PicOK /\ EndsOK

----------------------------------------------------------------------------
(***************************************************************************)
(* Sequences and the PIC                                                   *)
(***************************************************************************)
\* A list without repetitions is as long as the set of its elements is large.
LEMMA LenIsCardinality ==
    ASSUME NEW S, NEW seq \in Seq(S),
           \A i, j \in DOMAIN seq : seq[i] = seq[j] => i = j
    PROVE  Len(seq) = Cardinality(Elems(seq))
<1>1. Len(seq) \in Nat /\ DOMAIN seq = 1 .. Len(seq)
  BY LenProperties
<1>2. seq \in [1 .. Len(seq) -> Elems(seq)]
  BY <1>1, SeqDef DEF Elems
<1>3. seq \in Surjection(1 .. Len(seq), Elems(seq))
  BY <1>1, <1>2 DEF Surjection, Elems
<1>4. seq \in Injection(1 .. Len(seq), Elems(seq))
  BY <1>1, <1>2 DEF Injection, IsInjective
<1>5. ExistsBijection(1 .. Len(seq), Elems(seq))
  BY <1>3, <1>4 DEF ExistsBijection, Bijection
<1> QED  BY <1>1, <1>5, FS_CountingElements

\* A function on 1 .. n is a sequence.
LEMMA FunctionIsSeq ==
    ASSUME NEW S, NEW n \in Nat, NEW f \in [1 .. n -> S]
    PROVE  f \in Seq(S) /\ Len(f) = n
BY SeqDef, LenProperties

\* The end of interrupt takes the timer if it is in service, and adds nothing.
LEMMA EoiTakesTimer ==
    ASSUME NEW s \in SUBSET Line
    PROVE  SendEndOfInterrupt(s) \subseteq s /\ Timer \notin SendEndOfInterrupt(s \cup {Timer})
<1>1. SendEndOfInterrupt(s) \subseteq s
  BY DEF SendEndOfInterrupt
<1>2. \A l \in s \cup {Timer} : l \in 0 .. 7
  BY LineAssumption DEF Timer
<1>3. Highest(s \cup {Timer}) = Timer
  <2> DEFINE L == s \cup {Timer}
             Low(l) == \A k \in L : l <= k
  <2>1. Timer \in L /\ Low(Timer)
    BY <1>2 DEF Timer
  <2>2. (CHOOSE l \in L : Low(l)) \in L /\ Low(CHOOSE l \in L : Low(l))
    <3> HIDE DEF Low, L
    <3> QED  BY <2>1
  <2>3. \A l \in L : Low(l) => l = Timer
    BY <1>2 DEF Timer
  <2> QED  BY <2>2, <2>3 DEF Highest
<1> QED  BY <1>1, <1>3 DEF SendEndOfInterrupt

----------------------------------------------------------------------------
(***************************************************************************)
(* Steps of the proofs below                                               *)
(***************************************************************************)
\* The initial states.
LEMMA InitOK ==
    ASSUME Init
    PROVE  IInv
<1>1. CoreOK
  BY StartOK, UserAssumption DEF Init, CoreInit
<1>2. << 0 >> \in Seq(Device \cup {0}) /\ << >> \in Seq(Device \cup {0}) /\ << 0 >> # << >>
  OBVIOUS
<1>3. TableOK
  <2>1. table \in [Line -> Seq(Device \cup {0})]
    BY <1>2 DEF Init
  <2>2. \A l \in Line : table[l] = << 0 >> \/ table[l] = << >>
    BY DEF Init
  <2>3. \A i, j \in DOMAIN << 0 >> : i = j
    OBVIOUS
  <2>4. DOMAIN << >> = {}
    OBVIOUS
  <2> QED  BY <2>1, <2>2, <2>3, <2>4 DEF TableOK
<1>4. LinesOK
  BY <1>2, LineAssumption DEF Init, LinesOK, Timer
<1>5. PicOK
  BY DEF Init, PicOK
<1>6. EndsOK
  <2>1. ends \in [AnyThread -> Seq(Place)]
    BY DEF Init
  <2>2. \A t \in AnyThread : ends[t] = << >> /\ frames[t] = 0
    BY DEF Init, CoreInit, StartWith
  <2> QED  BY <2>1, <2>2 DEF EndsOK
<1> QED  BY <1>1, <1>3, <1>4, <1>5, <1>6 DEF IInv

\* Requests, dispatches that are not left, and what threads do besides.
LEMMA QuietStepOK ==
    ASSUME IInv, CoreOK', frames' = frames, UNCHANGED <<tables, imr, ends>>, PicOK'
    PROVE  IInv'
<1>1. TableOK' /\ LinesOK'
  BY DEF IInv, TableOK, LinesOK, tables
<1>2. EndsOK'
  BY DEF IInv, EndsOK
<1> QED  BY <1>1, <1>2 DEF IInv

LEMMA RaiseOK ==
    ASSUME IInv, NEW l \in Line, Raise(l)
    PROVE  IInv'
<1>1. CoreOK' /\ frames' = frames
  BY CoreSame DEF IInv, Raise, core
<1>2. PicOK'
  BY DEF IInv, PicOK, Raise
<1> QED  BY <1>1, <1>2, QuietStepOK DEF Raise

LEMMA DispatchOK ==
    ASSUME IInv, NEW l \in Line, Dispatch(l)
    PROVE  IInv'
<1>1. CoreOK' /\ frames' = frames
  BY CoreSame DEF IInv, Dispatch, core
<1>2. isr \cup {l} \in SUBSET Line /\ Timer \notin isr \cup {l}
  BY DEF IInv, PicOK, Dispatch
<1>3. SendEndOfInterrupt(isr \cup {l}) \subseteq isr \cup {l}
  BY <1>2, EoiTakesTimer
<1>4. PicOK'
  BY <1>2, <1>3 DEF IInv, PicOK, Dispatch, Accept, Finish
<1> QED  BY <1>1, <1>4, QuietStepOK DEF Dispatch

LEMMA TimerStepOK ==
    ASSUME IInv, TimerStep
    PROVE  IInv'
<1>1. isr \in SUBSET Line /\ isr \cup {Timer} \in SUBSET Line
  BY LineAssumption DEF IInv, PicOK, Timer
<1>2. /\ SendEndOfInterrupt(isr \cup {Timer}) \subseteq isr \cup {Timer}
      /\ Timer \notin SendEndOfInterrupt(isr \cup {Timer})
  BY <1>1, EoiTakesTimer
<1>3. PicOK'
  BY <1>1, <1>2 DEF IInv, PicOK, TimerStep, TimerReturns, TimerPreempts, Accept, IrqSendEoi
<1>4. CASE TimerReturns
  <2>1. CoreOK' /\ frames' = frames
    BY <1>4, CoreSame DEF IInv, TimerReturns, core
  <2> QED  BY <1>3, <1>4, <2>1, QuietStepOK DEF TimerReturns
<1>5. CASE TimerPreempts
  <2>1. CoreOK'
    BY <1>5, CoreNextOK DEF IInv, TimerPreempts, CoreNext
  <2>2. TableOK' /\ LinesOK'
    BY <1>5 DEF IInv, TimerPreempts, TableOK, LinesOK, tables
  <2>3. EndsOK'
    <3> DEFINE t == sched.running
    <3>1. t \in AnyThread /\ frames \in [AnyThread -> 0 .. MaxNest] /\ MaxNest \in Nat
      BY MaxNestAssumption DEF IInv, CoreOK, CoreTypeOK, Sched
    <3>2. /\ frames' = [frames EXCEPT ![t] = @ + 1]
          /\ ends' = [ends EXCEPT ![t] = Append(@, "test")]
      BY <1>5 DEF TimerPreempts, Tick
    <3>3. ends[t] \in Seq(Place) /\ "test" \in Place
      BY <3>1 DEF IInv, EndsOK, Place
    <3>4. Append(ends[t], "test") \in Seq(Place) /\ Len(Append(ends[t], "test")) = Len(ends[t]) + 1
      BY <3>3
    <3> QED  BY <3>1, <3>2, <3>4 DEF IInv, EndsOK
  <2> QED  BY <1>3, <2>1, <2>2, <2>3 DEF IInv
<1> QED  BY <1>4, <1>5 DEF TimerStep

\* The end of a dispatch that was left.
LEMMA EndStepOK ==
    ASSUME IInv, NEW t \in AnyThread, EndStep(t)
    PROVE  IInv'
<1>1. /\ frames \in [AnyThread -> 0 .. MaxNest] /\ MaxNest \in Nat
      /\ ends[t] \in Seq(Place) /\ ends[t] # << >> /\ Len(ends[t]) = frames[t]
  BY MaxNestAssumption DEF IInv, EndsOK, CoreOK, CoreTypeOK, EndStep, EndTest, EndClear, EndIret, At
<1>2. Len(ends[t]) \in Nat \ {0} /\ DOMAIN ends[t] = 1 .. Len(ends[t])
  BY <1>1, EmptySeq, LenProperties
<1>3. TableOK' /\ LinesOK'
  BY DEF IInv, EndStep, EndTest, EndClear, EndIret, TableOK, LinesOK, tables, pic
<1>4. PicOK'
  <2>1. SendEndOfInterrupt(isr) \subseteq isr
    BY EoiTakesTimer DEF IInv, PicOK
  <2> QED  BY <2>1 DEF IInv, PicOK, EndStep, EndTest, EndClear, EndIret, pic
<1>5. ASSUME NEW p \in Place, MoveTo(t, p), UNCHANGED core
      PROVE  CoreOK' /\ EndsOK'
  <2>1. CoreOK' /\ frames' = frames
    BY <1>5, CoreSame DEF IInv, core
  <2> DEFINE s == [ends[t] EXCEPT ![Len(ends[t])] = p]
  <2>2. s \in Seq(Place) /\ Len(s) = Len(ends[t])
    <3>1. ends[t] \in [1 .. Len(ends[t]) -> Place]
      BY <1>1, SeqDef, LenProperties
    <3>2. s \in [1 .. Len(ends[t]) -> Place]
      BY <3>1
    <3> HIDE DEF s
    <3> QED  BY <1>2, <3>2, FunctionIsSeq
  <2>3. ends' = [ends EXCEPT ![t] = s]
    BY <1>5 DEF MoveTo
  <2> QED  BY <2>1, <2>2, <2>3 DEF IInv, EndsOK
<1>6. CASE EndTest(t)
  BY <1>3, <1>4, <1>5, <1>6 DEF IInv, EndTest, Place
<1>7. CASE EndClear(t)
  BY <1>3, <1>4, <1>5, <1>7 DEF IInv, EndClear, Place
<1>8. CASE EndIret(t)
  <2>1. CoreOK'
    BY <1>8, CoreNextOK DEF IInv, EndIret, CoreNext
  <2> DEFINE s == SubSeq(ends[t], 1, Len(ends[t]) - 1)
  <2>2. s \in Seq(Place) /\ Len(s) = Len(ends[t]) - 1
    <3>1. 1 \in 1 .. Len(ends[t]) + 1 /\ Len(ends[t]) - 1 \in 1 - 1 .. Len(ends[t])
      BY <1>2
    <3> QED  BY <1>1, <1>2, <3>1, SubSeqProperties
  <2>3. ends' = [ends EXCEPT ![t] = s] /\ frames' = [frames EXCEPT ![t] = @ - 1]
    BY <1>8 DEF EndIret, Iret
  <2>4. EndsOK'
    BY <1>1, <2>2, <2>3 DEF IInv, EndsOK
  <2> QED  BY <1>3, <1>4, <2>1, <2>4 DEF IInv
<1> QED  BY <1>6, <1>7, <1>8 DEF EndStep

\* Block, unblock and the returns to user mode.
LEMMA OtherStepOK ==
    ASSUME IInv, NEW t \in User, OtherStep(t) \/ Returns(t) \/ Idles
    PROVE  IInv'
<1>1. CoreOK /\ sched \in Sched /\ Consistent(sched, {}) /\ t \in Thread /\ t # Idle /\ t # Gct
  BY SchedulableFacts, UserAssumption DEF IInv, CoreOK, CoreTypeOK
<1>2. CoreOK' /\ frames' = frames
  <2>1. CASE OnCpu(t) /\ Call(Block(MarkAsBlockPending(sched), t))
    <3> DEFINE m == MarkAsBlockPending(sched)
    <3>1. sched.running = t
      BY <2>1 DEF OnCpu
    <3>2. m \in Sched /\ Consistent(m, {}) /\ m.running = t
      BY <1>1, <3>1, MarkOK DEF CallOK
    <3>3. CallOK(m, Block(m, t), {})
      BY <3>2, BlockOK
    <3> QED  BY <1>1, <2>1, <3>3 DEF Call, CallOK, CoreOK, CoreTypeOK
  <2>2. ASSUME NEW u \in User, Call(Unblock(sched, u)) PROVE CoreOK' /\ frames' = frames
    BY <1>1, <2>2, UnblockCallOK, UserAssumption DEF Call
  <2>3. CASE Returns(t)
    BY <1>1, <2>3, FlagOK DEF Returns, Sysret
  <2>4. CASE Idles
    BY <1>1, <2>4, CoreNextOK DEF Idles, IdleLoop, CoreNext
  <2> QED  BY <2>1, <2>2, <2>3, <2>4 DEF OtherStep
<1>3. PicOK'
  BY DEF IInv, PicOK, OtherStep, Returns, Idles, pic
<1> QED  BY <1>2, <1>3, QuietStepOK DEF OtherStep, Returns, Idles, pic

\* Handlers come ...
LEMMA InstallOK ==
    ASSUME IInv, NEW t \in User, NEW l \in Line, NEW d \in Device, Install(t, l, d)
    PROVE  IInv'
<1>1. CoreOK' /\ PicOK' /\ EndsOK'
  BY DEF IInv, CoreOK, CoreTypeOK, PicOK, EndsOK, Install
<1>2. CASE d \in Elems(table[l])
  <2>1. UNCHANGED <<table, present, imr>>
    BY <1>2 DEF Install
  <2> QED  BY <1>1, <2>1 DEF IInv, TableOK, LinesOK
<1>3. CASE d \notin Elems(table[l])
  <2> DEFINE s == Append(table[l], d)
  <2>1. table' = [table EXCEPT ![l] = s]
    BY <1>3 DEF Install
  <2>2. table[l] \in Seq(Device \cup {0}) /\ d \in Device \cup {0}
    BY DEF IInv, TableOK
  <2>3. /\ s \in Seq(Device \cup {0})
        /\ Elems(s) = Elems(table[l]) \cup {d}
    BY <2>2, ElemsAppend
  <2>4. \A i, j \in DOMAIN s : s[i] = s[j] => i = j
    BY <1>3, <2>2, AppendKeepsOrder DEF IInv, TableOK
  <2>5. table'[l] = s /\ s # << >> /\ table' # table
    <3>1. table'[l] = s
      BY <2>1 DEF IInv, TableOK
    <3>2. d \in Elems(s)
      BY <2>3
    <3>3. s # << >>
      BY <3>2 DEF Elems
    <3>4. table'[l] # table[l]
      BY <1>3, <3>1, <3>2
    <3>5. table' # table
      BY <3>4, Zenon
    <3> QED  BY <3>1, <3>3, <3>5
  <2>6. TableOK'
    BY <2>1, <2>3, <2>4, <2>5 DEF IInv, TableOK
  <2>7. s = << d >> <=> table[l] = << >>
    <3>1. Len(s) = Len(table[l]) + 1 /\ Len(table[l]) \in Nat /\ Len(<< d >>) = 1
      BY <2>2
    <3>2. ASSUME s = << d >> PROVE table[l] = << >>
      <4>1. Len(table[l]) = 0
        BY <3>1, <3>2
      <4> QED  BY <2>2, <4>1, EmptySeq
    <3>3. ASSUME table[l] = << >> PROVE s = << d >>
      BY <3>3
    <3> QED  BY <3>2, <3>3
  <2>8. LinesOK'
    <3>1. IF table[l] = << >> THEN present' = present \cup {l} /\ imr' = imr \ {l}
          ELSE UNCHANGED <<present, imr>>
      BY <2>5, <2>7 DEF Install
    <3>2. \A k \in Line : k # l => table'[k] = table[k]
      BY <2>1 DEF IInv, TableOK
    <3> QED  BY <2>5, <3>1, <3>2 DEF IInv, LinesOK
  <2> QED  BY <1>1, <2>6, <2>8 DEF IInv
<1> QED  BY <1>2, <1>3

\* ... and go.
LEMMA UninstallOK ==
    ASSUME IInv, NEW t \in User, NEW l \in Line, NEW d \in Device,
           Uninstall(t, l, d) \/ UninstallFails(t, l, d)
    PROVE  IInv'
<1>1. CoreOK' /\ PicOK' /\ EndsOK'
  BY DEF IInv, CoreOK, CoreTypeOK, PicOK, EndsOK, Uninstall, UninstallFails, pic
<1>2. CASE UninstallFails(t, l, d)
  BY <1>1, <1>2 DEF IInv, TableOK, LinesOK, UninstallFails, tables, pic
<1>3. CASE Uninstall(t, l, d)
  <2> DEFINE s == Without(table[l], d)
  <2>1. table' = [table EXCEPT ![l] = s]
    BY <1>3 DEF Uninstall
  <2>2. table'[l] = s /\ \A k \in Line : k # l => table'[k] = table[k]
    BY <2>1 DEF IInv, TableOK
  <2>3. table[l] \in Seq(Device \cup {0}) /\ \A i, j \in DOMAIN table[l] : table[l][i] = table[l][j] => i = j
    BY DEF IInv, TableOK
  <2>4. /\ s \in Seq(Device \cup {0})
        /\ Elems(s) = Elems(table[l]) \ {d}
        /\ \A i, j \in DOMAIN s : s[i] = s[j] => i = j
    BY <2>3, ElemsWithout
  <2>5. TableOK'
    BY <2>1, <2>2, <2>4 DEF IInv, TableOK
  <2>6. s # << >> => table[l] # << >>
    <3>1. ASSUME table[l] = << >> PROVE s = << >>
      <4>1. Elems(table[l]) = {}
        BY <3>1 DEF Elems
      <4> QED  BY <3>1, <4>1 DEF Without
    <3> QED  BY <3>1
  <2>7. IF s = << >> THEN present' = present \ {l} /\ imr' = imr \cup {l}
        ELSE UNCHANGED <<present, imr>>
    BY <1>3, <2>2 DEF Uninstall
  <2>8. LinesOK'
    BY <2>2, <2>6, <2>7 DEF IInv, LinesOK
  <2> QED  BY <1>1, <2>5, <2>8 DEF IInv
<1> QED  BY <1>2, <1>3

----------------------------------------------------------------------------
(***************************************************************************)
(* The theorems                                                            *)
(***************************************************************************)
\* The inductive invariant: each of the properties below follows from it, and
\* every step of the dispatcher, the PIC and the threads keeps it.
THEOREM Invariance == Spec => []IInv
<1>1. Init => IInv
  BY InitOK
<1>2. ASSUME IInv, [Next]_vars PROVE IInv'
  <2>1. CASE UNCHANGED vars
    <3>1. CoreOK' /\ frames' = frames
      BY <1>2, <2>1, CoreSame DEF IInv, vars, core
    <3>2. PicOK'
      BY <1>2, <2>1 DEF IInv, PicOK, vars, pic
    <3> QED  BY <1>2, <2>1, <3>1, <3>2, QuietStepOK DEF vars, pic
  <2>2. CASE Next
    <3>1. First \in User
      BY UserAssumption
    <3>2. CASE \E l \in Line : Raise(l) \/ Dispatch(l)
      BY <1>2, <3>2, RaiseOK, DispatchOK
    <3>3. CASE TimerStep
      BY <1>2, <3>3, TimerStepOK
    <3>4. CASE Idles \/ \E t \in User : OtherStep(t) \/ Returns(t)
      BY <1>2, <3>1, <3>4, OtherStepOK
    <3>5. CASE \E t \in AnyThread : EndStep(t)
      BY <1>2, <3>5, EndStepOK
    <3>6. CASE \E t \in User, l \in Line \ {Timer}, d \in Device :
                   Install(t, l, d) \/ Uninstall(t, l, d) \/ UninstallFails(t, l, d)
      BY <1>2, <3>6, InstallOK, UninstallOK
    <3> QED  BY <2>2, <3>2, <3>3, <3>4, <3>5, <3>6 DEF Next
  <2> QED  BY <1>2, <2>1, <2>2
<1> QED  BY <1>1, <1>2, PTL DEF Spec

\* The variables keep their types: no vector but those of the lines in use, and the
\* ends of as many dispatches on a stack as interrupts (interrupt_dispatch()).
THEOREM TypeCorrect == Spec => []InterruptsTypeOK
<1>1. ASSUME IInv PROVE InterruptsTypeOK
  <2>1. CoreTypeOK /\ {present, imr, irr, isr} \subseteq SUBSET Line /\ manual \in BOOLEAN
    BY <1>1 DEF IInv, CoreOK, LinesOK, PicOK
  <2>2. \A l \in Line : Elems(table[l]) \subseteq Device \cup {0}
    BY <1>1, ElementOfSeq, LenProperties DEF IInv, TableOK, Elems
  <2>3. \A t \in AnyThread : Len(ends[t]) = frames[t] /\ Elems(ends[t]) \subseteq Place
    BY <1>1, ElementOfSeq, LenProperties DEF IInv, EndsOK, Elems
  <2> QED  BY <2>1, <2>2, <2>3 DEF InterruptsTypeOK, Place
<1> QED  BY <1>1, Invariance, PTL

\* A line is unmasked and its vector present exactly while a device handles it, and
\* no device handles a line twice (irq_install_handler(), irq_uninstall_handler()).
THEOREM TablesMatch == Spec => []TableMatchesPic
<1>1. ASSUME IInv PROVE TableMatchesPic
  <2>1. \A l \in Line : Len(table[l]) = Cardinality(Elems(table[l]))
    BY <1>1, LenIsCardinality DEF IInv, TableOK
  <2> QED  BY <1>1, <2>1 DEF IInv, LinesOK, TableMatchesPic
<1> QED  BY <1>1, Invariance, PTL

\* A dispatch whose thread was switched away never leaves the timer in service (the
\* calls of irq_send_eoi() in front of preempt_running_thread()).
THEOREM TimerNeverStuck == Spec => []TimerIsFree
<1>1. IInv => TimerIsFree
  BY DEF IInv, PicOK, TimerIsFree
<1> QED  BY <1>1, Invariance, PTL
=============================================================================
