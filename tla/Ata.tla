-------------------------------- MODULE Ata --------------------------------
(***************************************************************************)
(* The disk driver (src/src/kernel/ata.c) and the drive it polls.  The     *)
(* driver knows the drive by three bits of its status register, read at    *)
(* one moment and used at another, and waits for each without a timeout.   *)
(* The drive is external: it is modelled by what the driver reads from it. *)
(***************************************************************************)
EXTENDS Integers, Sequences

CONSTANTS
  LbaLimit,   \* sectors that 28 bits can name
  MaxCount    \* sectors in one read: 255, the most a byte holds

ASSUME AtaAssumption == LbaLimit \in Nat \ {0} /\ MaxCount \in Nat \ {0}

\* What is at the port: nothing, on a bus whose lines float or read as zero, or
\* a drive, which may take a while to show that it has got a command, and may
\* come to sectors it cannot read.
Drives == [kind : {"floating", "zero"}, late : {FALSE}, faulty : {FALSE}]
            \cup [kind : {"drive"}, late : BOOLEAN, faulty : BOOLEAN]

VARIABLES
  drive,     \* what is at the port
  status,    \* of the drive: the bits BSY, DRQ and ERR
  command,   \* of the drive: the sectors it has yet to deliver, and whether it has noticed
  driver,    \* where ata_init or ata_read_sectors is
  request,   \* what ata_read_sectors was asked for
  buf        \* the sectors it has put into the caller's buffer

ataVars == <<drive, status, command, driver, request, buf>>

NoRequest == [lba |-> 0, count |-> 0]
NoCommand == [lba |-> 0, left |-> 0, seen |-> TRUE]
STALE     == -1
Bits(bsy, drq, err) == [bsy |-> bsy, drq |-> drq, err |-> err]

AtaInit ==
  /\ drive \in Drives
  /\ status = CASE drive.kind = "floating" -> Bits(TRUE, TRUE, TRUE)
                [] drive.kind = "zero"     -> Bits(FALSE, FALSE, FALSE)
                [] OTHER                   -> Bits(TRUE, FALSE, FALSE)
  /\ command = NoCommand
  /\ driver = "unprobed"
  /\ request = NoRequest
  /\ buf = <<>>

-----------------------------------------------------------------------------
(* The drive *)

\* It has recovered from the reset.
Ready ==
  /\ drive.kind = "drive"
  /\ status.bsy /\ command.left = 0
  /\ status' = Bits(FALSE, FALSE, FALSE)
  /\ UNCHANGED <<drive, command, driver, request, buf>>

\* It shows that it is at work on a command, which a late drive was given before.
Notice ==
  /\ ~command.seen
  /\ command' = [command EXCEPT !.seen = TRUE]
  /\ status' = Bits(TRUE, FALSE, FALSE)
  /\ UNCHANGED <<drive, driver, request, buf>>

Working == command.seen /\ status.bsy /\ command.left > 0

\* The next sector is in its buffer.
Deliver ==
  /\ Working
  /\ status' = Bits(FALSE, TRUE, FALSE)
  /\ UNCHANGED <<drive, command, driver, request, buf>>

\* The next sector cannot be read: the command ends.
Spoil ==
  /\ Working
  /\ drive.faulty
  /\ status' = Bits(FALSE, FALSE, TRUE)
  /\ command' = NoCommand
  /\ UNCHANGED <<drive, driver, request, buf>>

DriveStep == Ready \/ Notice \/ Deliver \/ Spoil

-----------------------------------------------------------------------------
(* The driver *)

\* ata_init, whose reset the drive has answered by its status: only a bus that
\* reads 0xFF is known to have no drive.
Probe ==
  /\ driver = "unprobed"
  /\ driver' = IF status = Bits(TRUE, TRUE, TRUE) THEN "absent" ELSE "idle"
  /\ UNCHANGED <<drive, status, command, request, buf>>

\* A read begins, once a drive was found.
Start(lba, count) ==
  /\ driver = "idle"
  /\ count > 0
  /\ request' = [lba |-> lba, count |-> count]
  /\ buf' = <<>>
  /\ driver' = "ready"
  /\ UNCHANGED <<drive, status, command>>

\* What the registers get: 28 bits of the address, and the count.
Asked(lba, count) == [lba |-> lba % LbaLimit, left |-> count, seen |-> ~drive.late]

\* The drive is ready and gets the command; a late one still shows what it did.
Command ==
  /\ driver = "ready"
  /\ ~status.bsy
  /\ IF drive.kind = "drive"
       THEN /\ command' = Asked(request.lba, request.count)
            /\ status' = IF drive.late THEN status ELSE Bits(TRUE, FALSE, FALSE)
       ELSE UNCHANGED <<command, status>>
  /\ driver' = "busy"
  /\ UNCHANGED <<drive, request, buf>>

\* ata_wait_bsy, before each sector.
NotBusy ==
  /\ driver = "busy"
  /\ ~status.bsy
  /\ driver' = "check"
  /\ UNCHANGED <<drive, status, command, request, buf>>

\* Mutant: errors are not looked for.
Unchecked == FALSE

\* The status is read again, for the error bit.
ErrorSeen == status.err

\* An error ends the read.
CheckError ==
  /\ driver = "check"
  /\ driver' = IF ErrorSeen THEN "failed" ELSE "wanted"
  /\ UNCHANGED <<drive, status, command, request, buf>>

\* What the data port holds: the sector, as long as the drive offers it.
Data == IF status.drq THEN command.lba ELSE STALE

\* Mutant: the data port is read whatever the status says.
AtOnce == TRUE

\* ata_wait_drq.
DataReady == status.drq

\* The last sector ends the command.
Taken ==
  IF command.left <= 1 THEN NoCommand
  ELSE [command EXCEPT !.lba = @ + 1, !.left = @ - 1]

\* Whether n sectors are all that was asked for.
AllRead(n) == n >= request.count

\* One sector is copied, and the drive goes on with the next one.
Transfer ==
  /\ driver = "wanted"
  /\ DataReady
  /\ buf' = Append(buf, Data)
  /\ command' = Taken
  /\ status' = Bits(command.left > 1, FALSE, FALSE)
  /\ driver' = IF AllRead(Len(buf')) THEN "done" ELSE "busy"
  /\ UNCHANGED <<drive, request>>

AtaStep == Command \/ NotBusy \/ CheckError \/ Transfer

\* The status is not yet what the driver waits for: it reads it again.
Waits == \/ driver \in {"ready", "busy"} /\ status.bsy
         \/ driver = "wanted" /\ ~DataReady

\* ata_read_sectors returns.
Done   == driver \in {"done", "failed"}
Return ==
  /\ driver' = "idle"
  /\ UNCHANGED <<drive, status, command, request, buf>>

-----------------------------------------------------------------------------
AtaTypeOK ==
  /\ drive \in Drives
  /\ status \in [bsy : BOOLEAN, drq : BOOLEAN, err : BOOLEAN]
  /\ command \in [lba : 0 .. LbaLimit, left : 0 .. MaxCount, seen : BOOLEAN]
  /\ driver \in {"unprobed", "absent", "idle", "ready", "busy", "check", "wanted",
                 "failed", "done"}
  /\ request \in [lba : Nat, count : 0 .. MaxCount]

\* A read that succeeds has put the sectors that were asked for into the
\* caller's buffer, each once and in their order, however slowly and late the
\* drive answers.
ReadsWhatWasAsked ==
  driver = "done" => buf = [i \in 1 .. request.count |-> request.lba + i - 1]
=============================================================================
