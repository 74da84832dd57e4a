--------------------------------- MODULE Ide ---------------------------------
(***************************************************************************)
(* devices/ide.c: one ATA channel with a master and a slave.  The boot     *)
(* thread detects and identifies the disks; then threads read and write    *)
(* sectors of those registered, sharing the channel's registers under its  *)
(* lock, with the completion semaphore up'd by the interrupt handler.  The *)
(* device itself (Device) is external: it  executes a command in its own   *)
(* time, may fail it before any data is transferred, and interrupts.       *)
(***************************************************************************)
EXTENDS Naturals, FiniteSets

CONSTANTS Thread, boot, NULL,
          Sector, Value,
          DeviceKind,  \* what may be attached: records of registers and capacity
          Limit,       \* capacity of 1 GB and above is ignored
          Spurious     \* bound on completions counted when an interrupt comes unasked

\* What the constants satisfy.
IdeAssumption == boot \notin Thread /\ Limit \in Nat /\ Spurious \in Nat

VARIABLES kind,         \* [device -> its kind]
          data,         \* [device -> [sector -> value]]
          is_ata, registered, booting,
          selected, lba,   \* device and sector registers
          ctl,          \* the device's state: [st, cmd, val]
          intrq,        \* interrupt pending
          expecting_interrupt, completion_wait, lock,
          th,           \* [thread -> [pc, op, d, sec, val]]
          panic

disks == <<kind, is_ata, registered, booting>>
vars == <<kind, data, is_ata, registered, booting, selected, lba, ctl, intrq,
          expecting_interrupt, completion_wait, lock, th, panic>>

Dev == {0, 1}
Idle == [pc |-> "idle", op |-> "none", d |-> 0, sec |-> 0, val |-> NULL]
Ready == [st |-> "ready", cmd |-> "none", val |-> NULL]

Init ==
  /\ kind \in [Dev -> DeviceKind]
  /\ data = [d \in Dev |-> [s \in Sector |-> <<d, s>>]]
  /\ is_ata = [d \in Dev |-> FALSE] /\ registered = {} /\ booting = "check0"
  /\ selected = 0 /\ lba = 0 /\ ctl = Ready /\ intrq = FALSE
  /\ expecting_interrupt = FALSE /\ completion_wait = 0 /\ lock = NULL
  /\ th = [t \in Thread \cup {boot} |-> Idle]
  /\ panic = FALSE

-----------------------------------------------------------------------------
(* The device (external) *)

Device ==
  \/ /\ ctl.st = "busy" /\ ctl.cmd \in {"read", "identify"}
     /\ \/ ctl' = [ctl EXCEPT !.st = "drq"]
        \/ ctl' = Ready
     /\ intrq' = TRUE /\ UNCHANGED data
  \/ /\ ctl.st = "busy" /\ ctl.cmd = "write"
     /\ \/ ctl' = [ctl EXCEPT !.st = "drq"] /\ UNCHANGED intrq
        \/ ctl' = Ready /\ intrq' = TRUE
     /\ UNCHANGED data
  \/ /\ ctl.st = "commit"
     /\ data' = [data EXCEPT ![selected][lba] = ctl.val]
     /\ ctl' = Ready /\ intrq' = TRUE

DeviceStep ==
  /\ ~ panic /\ Device
  /\ UNCHANGED <<disks, selected, lba, expecting_interrupt, completion_wait, lock, th, panic>>

SpuriousInterrupt ==
  /\ completion_wait < Spurious /\ ~ panic /\ ~ intrq /\ intrq' = TRUE
  /\ UNCHANGED <<disks, data, selected, lba, ctl, expecting_interrupt, completion_wait, lock, th, panic>>

-----------------------------------------------------------------------------
(* The interrupt handler *)

\* Acknowledges an expected interrupt; an unexpected one is only reported.
interrupt_handler ==
  /\ ~ panic /\ intrq /\ intrq' = FALSE
  /\ completion_wait' = completion_wait + (IF expecting_interrupt THEN 1 ELSE 0)
  /\ UNCHANGED <<disks, data, selected, lba, ctl, expecting_interrupt, lock, th, panic>>

-----------------------------------------------------------------------------
(* Commands, by the boot thread or under the channel's lock *)

At(t, pc) == ~ panic /\ th[t].pc = pc
Goto(t, pc) == th' = [th EXCEPT ![t].pc = pc]
PANIC == panic' = TRUE

\* Reading the status register clears a pending interrupt.  After 10 ms of
\* waiting the wait is given up.
wait_until_idle(t, from, to) ==
  /\ At(t, from)
  /\ intrq' = FALSE
  /\ Goto(t, to)
  /\ UNCHANGED <<disks, data, selected, lba, ctl, expecting_interrupt, completion_wait, lock, panic>>

WaitBefore(t) == wait_until_idle(t, "idle1", "select")

select_device(t) ==
  /\ At(t, "select")
  /\ selected' = th[t].d
  /\ Goto(t, "idle2")
  /\ UNCHANGED <<disks, data, lba, ctl, intrq, expecting_interrupt, completion_wait, lock, panic>>

WaitAfter(t) == wait_until_idle(t, "idle2", IF th[t].op = "identify" THEN "issue" ELSE "sector")

select_sector(t) ==
  /\ At(t, "sector")
  /\ lba' = th[t].sec /\ selected' = th[t].d
  /\ Goto(t, "issue")
  /\ UNCHANGED <<disks, data, ctl, intrq, expecting_interrupt, completion_wait, lock, panic>>

issue_pio_command(t) ==
  /\ At(t, "issue")
  /\ expecting_interrupt' = TRUE
  /\ ctl' = [st |-> "busy", cmd |-> th[t].op, val |-> NULL]
  /\ Goto(t, IF th[t].op = "write" THEN "busy" ELSE "down")
  /\ UNCHANGED <<disks, data, selected, lba, intrq, completion_wait, lock, panic>>

\* sema_down (&c->completion_wait)
Down(t) ==
  /\ At(t, "down") /\ completion_wait > 0
  /\ completion_wait' = completion_wait - 1
  /\ Goto(t, IF th[t].op = "write" THEN "release" ELSE "busy")
  /\ UNCHANGED <<disks, data, selected, lba, ctl, intrq, expecting_interrupt, lock, panic>>

(* Mutant of wait_while_busy: the completion alone is trusted. *)
wait_while_busy_trusting(t) ==
  /\ At(t, "busy") /\ Goto(t, "data")
  /\ UNCHANGED <<disks, panic, data, selected, lba, ctl, intrq, expecting_interrupt, completion_wait, lock>>

\* Gives up on a device that is busy for 30 seconds; else looks at DRQ.
wait_while_busy(t) ==
  /\ At(t, "busy")
  /\ \/ ctl.st = "drq" /\ Goto(t, "data") /\ UNCHANGED <<disks, panic>>
     \/ /\ ctl.st # "drq"
        /\ IF th[t].op = "identify"
           THEN /\ is_ata' = [is_ata EXCEPT ![th[t].d] = FALSE]
                /\ Goto(t, "idle")
                /\ UNCHANGED <<kind, registered, booting, panic>>
           ELSE PANIC /\ UNCHANGED <<disks, th>>
  /\ UNCHANGED <<data, selected, lba, ctl, intrq, expecting_interrupt, completion_wait, lock>>

(* Mutant of input_sector: one word is left in the device. *)
input_sector_short(t) ==
  /\ At(t, "data") /\ th[t].op = "read"
  /\ th' = [th EXCEPT ![t].pc = "release", ![t].val = IF ctl.st = "drq" THEN data[selected][lba] ELSE NULL]
  /\ UNCHANGED <<ctl, disks, data, selected, lba, intrq, expecting_interrupt, completion_wait, lock, panic>>

input_sector(t) ==
  /\ At(t, "data") /\ th[t].op = "read"
  /\ th' = [th EXCEPT ![t].pc = "release", ![t].val = IF ctl.st = "drq" THEN data[selected][lba] ELSE NULL]
  /\ ctl' = Ready
  /\ UNCHANGED <<disks, data, selected, lba, intrq, expecting_interrupt, completion_wait, lock, panic>>

(* Mutant of output_sector: returns before the disk answers. *)
output_sector_async(t) ==
  /\ At(t, "data") /\ th[t].op = "write"
  /\ Goto(t, "release")
  /\ ctl' = [st |-> "commit", cmd |-> "write", val |-> th[t].val]
  /\ UNCHANGED <<disks, data, selected, lba, intrq, expecting_interrupt, completion_wait, lock, panic>>

output_sector(t) ==
  /\ At(t, "data") /\ th[t].op = "write"
  /\ Goto(t, "down")
  /\ ctl' = [st |-> "commit", cmd |-> "write", val |-> th[t].val]
  /\ UNCHANGED <<disks, data, selected, lba, intrq, expecting_interrupt, completion_wait, lock, panic>>

-----------------------------------------------------------------------------
(* ide_init(), after reset_channel() *)

(* Mutant of check_type: takes any device that is ready for a disk. *)
check_type_any(k, d) == [ata |-> k.ready, more |-> TRUE]

\* Whether device D of kind K is a disk, and whether a slave is possible.
check_type(k, d) ==
  IF (k.error # 1 /\ (k.error # 129 \/ d = 1)) \/ ~ k.ready
  THEN [ata |-> FALSE, more |-> k.error # 129]
  ELSE [ata |-> k.signature \in {"ata", "sata"}, more |-> TRUE]

check_device_type(d) ==
  /\ booting = (IF d = 0 THEN "check0" ELSE "check1")
  /\ selected' = d
  /\ is_ata' = [is_ata EXCEPT ![d] = check_type(kind[d], d).ata]
  /\ booting' = IF d = 0 /\ check_type(kind[0], 0).more THEN "check1" ELSE "identify0"
  /\ UNCHANGED <<kind, registered, data, lba, ctl, intrq, expecting_interrupt, completion_wait, lock, th, panic>>

After(b) == IF b = "identify0" THEN "identify1" ELSE "done"

StartIdentify(d) ==
  /\ booting = (IF d = 0 THEN "identify0" ELSE "identify1") /\ At(boot, "idle")
  /\ booting' = After(booting)
  /\ th' = [th EXCEPT ![boot] = IF is_ata[d] THEN [Idle EXCEPT !.pc = "idle1", !.op = "identify", !.d = d]
                                ELSE Idle]
  /\ UNCHANGED <<kind, is_ata, registered, data, selected, lba, ctl, intrq, expecting_interrupt, completion_wait, lock, panic>>

\* Reads the identity and registers a disk that is not too large.
identify_ata_device ==
  /\ At(boot, "data")
  /\ ctl' = Ready
  /\ LET d == th[boot].d
     IN  IF kind[selected].capacity >= Limit
         THEN is_ata' = [is_ata EXCEPT ![d] = FALSE] /\ UNCHANGED registered
         ELSE registered' = registered \cup {d} /\ UNCHANGED is_ata
  /\ Goto(boot, "idle")
  /\ UNCHANGED <<kind, booting, data, selected, lba, intrq, expecting_interrupt, completion_wait, lock, panic>>

Booted == booting = "done" /\ th[boot].pc = "idle"

-----------------------------------------------------------------------------
(* ide_read() and ide_write() *)

Request(t, op, d, sec, val) ==
  /\ Booted /\ At(t, "idle") /\ d \in registered
  /\ th' = [th EXCEPT ![t] = [pc |-> "want", op |-> op, d |-> d, sec |-> sec, val |-> val]]
  /\ UNCHANGED <<disks, data, selected, lba, ctl, intrq, expecting_interrupt, completion_wait, lock, panic>>

Acquire(t) ==
  /\ At(t, "want") /\ lock = NULL
  /\ lock' = t /\ Goto(t, "idle1")
  /\ UNCHANGED <<disks, data, selected, lba, ctl, intrq, expecting_interrupt, completion_wait, panic>>

(* Mutant of Release: a return path that keeps the lock. *)
Release_keeps(t) ==
  /\ At(t, "release")
  /\ lock' = IF th[t].op = "write" THEN lock ELSE NULL
  /\ th' = [th EXCEPT ![t] = Idle]
  /\ UNCHANGED <<disks, data, selected, lba, ctl, intrq, expecting_interrupt, completion_wait, panic>>

Release(t) ==
  /\ At(t, "release")
  /\ lock' = NULL
  /\ th' = [th EXCEPT ![t] = Idle]
  /\ UNCHANGED <<disks, data, selected, lba, ctl, intrq, expecting_interrupt, completion_wait, panic>>

Step(t) == \/ WaitBefore(t) \/ select_device(t) \/ WaitAfter(t) \/ select_sector(t)
           \/ issue_pio_command(t) \/ Down(t) \/ wait_while_busy(t)
           \/ input_sector(t) \/ output_sector(t) \/ Release(t)

Boot == \E d \in Dev : check_device_type(d) \/ StartIdentify(d)

Next ==
  \/ DeviceStep \/ SpuriousInterrupt \/ interrupt_handler
  \/ Boot \/ identify_ata_device
  \/ \E t \in Thread \cup {boot} : Step(t)
  \/ \E t \in Thread : Acquire(t)
  \/ \E t \in Thread, d \in Dev, s \in Sector : Request(t, "read", d, s, NULL)
  \/ \E t \in Thread, d \in Dev, s \in Sector, v \in Value : Request(t, "write", d, s, v)

\* The disk, the interrupt and a thread with the lock go on; some thread takes a free lock.
Fairness ==
  /\ WF_vars(DeviceStep) /\ WF_vars(interrupt_handler)
  /\ WF_vars(Boot) /\ WF_vars(identify_ata_device)
  /\ \A t \in Thread \cup {boot} : WF_vars(Step(t))
  /\ WF_vars(\E t \in Thread : Acquire(t))

Spec == Init /\ [][Next]_vars /\ Fairness

-----------------------------------------------------------------------------
(* Properties *)

Holds(t) == ~ panic /\ th[t].pc = "release"

(* ide_read() delivers the contents of the sector and disk it was asked    *)
(* for, and ide_write() has put its data there when it returns, while two  *)
(* threads share the device, sector and data registers of the channel.     *)
TransfersRight == \A t \in Thread : Holds(t) => data[th[t].d][th[t].sec] = th[t].val

(* Every command consumes its own completion: with the lock free, no       *)
(* interrupt is pending, none is counted, and the device is ready.         *)
CompletionsBalanced ==
  lock = NULL /\ Booted /\ ~ panic => completion_wait = 0 /\ ~ intrq /\ ctl = Ready

(* Only disks below the limit get registered; each has answered IDENTIFY   *)
(* DEVICE; a CD-ROM or an absent device never does.                        *)
OnlySmallDisks ==
  \A d \in registered : /\ is_ata[d] /\ kind[d].ready
                        /\ kind[d].signature \in {"ata", "sata"} /\ kind[d].capacity < Limit

Served(t) == th[t].pc \notin {"idle", "want"}

(* A request that has the lock returns, or the kernel has panicked over a  *)
(* failed disk; while requests wait for the lock, some request is served;  *)
(* the boot thread gets through detection.                                 *)
RequestsEnd ==
  /\ \A t \in Thread : Served(t) ~> th[t].pc = "idle" \/ panic
  /\ (\E t \in Thread : th[t].pc = "want") ~> (\E t \in Thread : Served(t)) \/ panic
  /\ <>(Booted \/ panic)

(* ide.c, of expecting_interrupt: "True if an interrupt is expected, false *)
(* if any interrupt would be spurious."                                    *)
ExpectingExact ==
  expecting_interrupt => \E t \in Thread \cup {boot} : th[t].pc \in {"down", "busy", "data"}
                            \/ (th[t].pc = "release" /\ th[t].op = "write")

(* ide.c, of ide_write(): "Returns after the disk has acknowledged         *)
(* receiving the data."                                                    *)
WriteAcknowledged ==
  \A t \in Thread : Holds(t) /\ th[t].op = "write" => data[th[t].d][th[t].sec] = th[t].val
==============================================================================
