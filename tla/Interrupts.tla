----------------------------- MODULE Interrupts -----------------------------
(***************************************************************************)
(* The dispatcher of interrupts, its tables and the 8259 PIC below it, on  *)
(* the core of module Core: IRQ handlers are installed and uninstalled,    *)
(* and the handler of the timer leaves its dispatch half way, when it      *)
(* switches to another thread.                                             *)
(*                                                                         *)
(* Interrupts are off in a dispatch.  They may be on at the end of one     *)
(* that was left for another thread, see Core, so this end has steps of    *)
(* its own; a dispatch that is not left is one step.                       *)
(*                                                                         *)
(* Only lines of the first PIC: the code never unmasks the line the second *)
(* one is connected to.  Counters and names are left out.                  *)
(***************************************************************************)
EXTENDS Core

CONSTANTS
    Line,       \* the lines in use; 0 is the timer
    Device      \* device handles

ASSUME LineAssumption == Line \subseteq 0 .. 7 /\ 0 \in Line
ASSUME DeviceAssumption == Device \subseteq Nat

VARIABLES
    table,      \* IRQ_HANDLER_TABLE: the devices of a line
    present,    \* the lines whose vector is present in the IDT
    imr,        \* the lines the PIC masks
    irr, isr,   \* the lines that are requested, and in service
    manual,     \* MANUAL_EOI_SENT
    ends        \* where the dispatches a thread was switched away from go on

pic == <<imr, irr, isr>>
tables == <<table, present>>
vars == <<core, tables, pic, manual, ends>>

Timer == 0

Init ==
    /\ CoreInit
    /\ table = [l \in Line |-> IF l = Timer THEN << 0 >> ELSE << >>]
    /\ present = {Timer}
    /\ imr = Line \ {Timer}
    /\ irr = {} /\ isr = {}
    /\ manual = FALSE
    /\ ends = [t \in AnyThread |-> << >>]

---------------------------------------------------------------------------
(* The PIC *)

Highest(lines) == CHOOSE l \in lines : \A k \in lines : l <= k

\* The request the PIC forwards: the highest one, if nothing as high is in service.
Forwards(l) ==
    /\ l \in irr \ imr
    /\ \A k \in (irr \ imr) \cup isr : k # l => l < k
    /\ l \notin isr

\* The end of interrupt names no line: the PIC takes the highest one in service.
SendEndOfInterrupt(s) == IF s = {} THEN s ELSE s \ {Highest(s)}

\* A device pulls its line.
Raise(l) ==
    /\ irr' = irr \cup {l}
    /\ irr' # irr
    /\ UNCHANGED <<core, tables, imr, isr, manual, ends>>

---------------------------------------------------------------------------
(* interrupt_dispatch() *)

Accept(l) == irqOn /\ Forwards(l) /\ irr' = irr \ {l}

\* The end of a dispatch that was not left.
Finish(l) ==
    /\ isr' = IF manual THEN isr \cup {l} ELSE SendEndOfInterrupt(isr \cup {l})
    /\ manual' = FALSE

\* A handler that does not know about threads, or a line nobody handles.
Dispatch(l) ==
    /\ l # Timer
    /\ Accept(l)
    /\ Finish(l)
    /\ UNCHANGED <<core, tables, imr, ends>>

\* Mutant: the handler leaves the end of interrupt to the dispatcher.
HandlerSendsNoEoi(s) == s

\* irq_send_eoi(), which the handler of the timer calls in any case.
IrqSendEoi(s) == SendEndOfInterrupt(s)

\* The handler of the timer, with no thread to switch to or no need to.
TimerReturns ==
    /\ Accept(Timer)
    /\ isr' = IrqSendEoi(isr \cup {Timer})
    /\ manual' = FALSE
    /\ UNCHANGED <<core, tables, imr, ends>>

\* ... and when it calls preempt_running_thread().
TimerPreempts ==
    /\ Accept(Timer)
    /\ isr' = IrqSendEoi(isr \cup {Timer})
    /\ Tick
    /\ manual' = TRUE
    /\ ends' = [ends EXCEPT ![sched.running] = Append(@, "test")]
    /\ UNCHANGED <<tables, imr>>

At(t, place) ==
    /\ sched.running = t
    /\ ends[t] # << >> /\ ends[t][Len(ends[t])] = place

MoveTo(t, place) == ends' = [ends EXCEPT ![t] = [@ EXCEPT ![Len(@)] = place]]

\* Back in the dispatch: it asks whether the handler has sent the end of interrupt.
EndTest(t) ==
    /\ At(t, "test")
    /\ isr' = IF manual THEN isr ELSE SendEndOfInterrupt(isr)
    /\ MoveTo(t, "clear")
    /\ UNCHANGED <<core, tables, imr, irr, manual>>

EndClear(t) ==
    /\ At(t, "clear")
    /\ manual' = FALSE
    /\ MoveTo(t, "iret")
    /\ UNCHANGED <<core, tables, pic>>

EndIret(t) ==
    /\ At(t, "iret")
    /\ Iret(t)
    /\ ends' = [ends EXCEPT ![t] = SubSeq(@, 1, Len(@) - 1)]
    /\ UNCHANGED <<tables, pic, manual>>

---------------------------------------------------------------------------
(* irq_install_handler() and irq_uninstall_handler(), called by a thread *)

Install(t, l, d) ==
    /\ OnCpu(t)
    /\ table' = IF d \in Elems(table[l]) THEN table ELSE [table EXCEPT ![l] = Append(@, d)]
    /\ IF table'[l] = << d >> /\ table # table'
       THEN present' = present \cup {l} /\ imr' = imr \ {l}
       ELSE UNCHANGED <<present, imr>>
    /\ irqOn' = TRUE
    /\ UNCHANGED <<sched, frames, irr, isr, manual, ends>>

\* The container that is looked for is initialised with handle 0.
Missing(l, d) == d # 0 /\ d \notin Elems(table[l])

\* Mutant: the line is masked with the first handler that goes.
UninstallMasks(t, l, d) ==
    /\ OnCpu(t)
    /\ ~Missing(l, d)
    /\ table' = [table EXCEPT ![l] = Without(@, d)]
    /\ present' = present \ {l} /\ imr' = imr \cup {l}
    /\ irqOn' = TRUE
    /\ UNCHANGED <<sched, frames, irr, isr, manual, ends>>

\* Mutant: the mask of the next line is set.
UninstallMasksNext(t, l, d) ==
    /\ OnCpu(t)
    /\ ~Missing(l, d)
    /\ table' = [table EXCEPT ![l] = Without(@, d)]
    /\ IF table'[l] = << >> THEN present' = present \ {l} /\ imr' = imr \cup {l + 1}
       ELSE UNCHANGED <<present, imr>>
    /\ irqOn' = TRUE
    /\ UNCHANGED <<sched, frames, irr, isr, manual, ends>>

Uninstall(t, l, d) ==
    /\ OnCpu(t)
    /\ ~Missing(l, d)
    /\ table' = [table EXCEPT ![l] = Without(@, d)]
    /\ IF table'[l] = << >> THEN present' = present \ {l} /\ imr' = imr \cup {l}
       ELSE UNCHANGED <<present, imr>>
    /\ irqOn' = TRUE
    /\ UNCHANGED <<sched, frames, irr, isr, manual, ends>>

\* The error path disables interrupts once more.
UninstallFails(t, l, d) ==
    /\ OnCpu(t)
    /\ Missing(l, d)
    /\ irqOn' = FALSE
    /\ UNCHANGED <<sched, frames, tables, pic, manual, ends>>

---------------------------------------------------------------------------
(* What else threads do: they block, wake each other and return to user mode. *)

OtherStep(t) ==
    /\ \/ OnCpu(t) /\ Call(Block(MarkAsBlockPending(sched), t))
       \/ \E u \in User \ {t} : /\ OnCpu(t) /\ sched.state[u] = "BLOCKED"
                                /\ Call(Unblock(sched, u))
    /\ UNCHANGED <<tables, pic, manual, ends>>

Returns(t) == Sysret(t) /\ UNCHANGED <<tables, pic, manual, ends>>

\* Mutant: hlt without sti.
IdlesHalted == OnCpu(Idle) /\ UNCHANGED vars

Idles == IdleLoop /\ UNCHANGED <<tables, pic, manual, ends>>

EndStep(t) == EndTest(t) \/ EndClear(t) \/ EndIret(t)

TimerStep == TimerReturns \/ TimerPreempts

Next ==
    \/ \E l \in Line : Raise(l) \/ Dispatch(l)
    \/ TimerStep
    \/ Idles
    \/ \E t \in AnyThread : EndStep(t)
    \/ \E t \in User : OtherStep(t) \/ Returns(t)
    \/ \E t \in User, l \in Line \ {Timer}, d \in Device :
            Install(t, l, d) \/ Uninstall(t, l, d) \/ UninstallFails(t, l, d)

Spec == Init /\ [][Next]_vars

\* The CPU looks for an interrupt after each instruction that leaves the flag on; a
\* dispatch ends, and a system call returns, once its thread has run long enough.
Fairness ==
    /\ SF_vars(TimerStep)
    /\ WF_vars(Idles)
    /\ \A t \in AnyThread : SF_vars(EndStep(t))
    /\ \A t \in User : SF_vars(Returns(t))

FairSpec == Spec /\ Fairness

---------------------------------------------------------------------------
(* Properties *)

\* The types of the variables: only lines of the two controllers, and no frame too many.
InterruptsTypeOK ==
    /\ CoreTypeOK
    /\ \A l \in Line : Elems(table[l]) \subseteq Device \cup {0}
    /\ {present, imr, irr, isr} \subseteq SUBSET Line
    /\ manual \in BOOLEAN
    /\ \A t \in AnyThread : Len(ends[t]) = frames[t] /\ Elems(ends[t]) \subseteq {"test", "clear", "iret"}

\* A line is unmasked and its vector present exactly while a device handles it, and
\* no device handles a line twice, however the handlers of several devices come and
\* go: a present vector without handler, or the other way round, loses interrupts or
\* raises an exception (irq_install_handler(), irq_uninstall_handler()).
TableMatchesPic ==
    \A l \in Line :
        /\ (table[l] # << >>) = (l \in present)
        /\ (l \in present) = (l \notin imr)
        /\ Len(table[l]) = Cardinality(Elems(table[l]))

\* The timer is never left in service by a dispatch whose thread was switched away:
\* everything with a lower priority, which is every other line, would wait for that
\* thread (the calls of irq_send_eoi() in front of preempt_running_thread()).
TimerIsFree == Timer \notin isr

\* No line is in service unless the CPU handles its interrupt (PIC.h on
\* is_irq_serviced(): "is currently being serviced by it").
ServicedIsHandled == isr = {}

\* A tick of the timer is always served in the end, also when a failed
\* irq_uninstall_handler() has left interrupts off, and whatever lines wait for an
\* end of interrupt nobody sends.
TimerIsServed == Timer \in irr ~> Timer \notin irr
=============================================================================
