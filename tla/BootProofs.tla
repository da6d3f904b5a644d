----------------------------- MODULE BootProofs -----------------------------
(***************************************************************************)
(* Proofs about kmain and the disk driver: for every disk, every count of  *)
(* frames and every place of the file's blocks, a read that succeeds has   *)
(* read what was asked for, init is the first program that can be loaded,  *)
(* and it starts as a process.                                             *)
(***************************************************************************)
EXTENDS Boot, TLAPS

-----------------------------------------------------------------------------
(* The inductive invariant *)

\* The sectors a read has copied so far are those it was asked for.
Copied ==
  /\ buf \in Seq(Int)
  /\ \A i \in 1 .. Len(buf) : buf[i] = request.lba + i - 1

\* A read in progress has some sectors left to copy, which the drive is about to
\* deliver in their order, unless it has given the command up or is none.
InOrder ==
  driver \in {"busy", "check", "wanted"} =>
    /\ Len(buf) < request.count
    /\ \/ command = NoCommand
       \/ /\ command.lba = request.lba + Len(buf)
          /\ command.left = request.count - Len(buf)

\* Where a read may begin, the drive has no command; kmain starts no read after
\* one that failed.
Quiet ==
  /\ driver \in {"unprobed", "ready", "done"} => command = NoCommand
  /\ driver = "idle" /\ pc \in {"mount", "file"} => command = NoCommand

\* A request fits the address and the count of the drive.
Fits ==
  /\ request.lba + request.count <= LbaLimit
  /\ driver = "ready" => request.count > 0 /\ buf = <<>>
  /\ driver = "done" => Len(buf) = request.count

\* What the status bits say.
Honest ==
  /\ drive.kind # "drive" => command = NoCommand
  /\ drive.kind = "floating" =>
       /\ status = Bits(TRUE, TRUE, TRUE)
       /\ driver \in {"unprobed", "absent"}
  /\ drive.kind # "floating" /\ status.drq => command.left > 0
  /\ drive.kind # "floating" /\ status.err => drive.faulty
  /\ driver = "failed" => drive.faulty

\* The driver is used from the probe on.
Probed ==
  /\ pc \in {"start", "space", "disk"} => driver = "unprobed"
  /\ pc \in {"mount", "file"} => driver \notin {"unprobed", "absent"}
  /\ drive.kind # "drive" => machine.disk = "no_ext2"

\* The parts of kmain that run with everything set up, and those after the disk.
Searching == {"disk", "mount", "file", "module", "embedded", "decide", "init"}
PastDisk  == {"module", "embedded", "decide", "init"}

Prepared ==
  /\ pc \in Searching => idt /\ cr3 = "user"
  /\ pc = "space" => idt
  /\ pc \in PastDisk \cup {"file"} /\ machine.disk # "no_ext2" /\ ~drive.faulty => rootfs
  /\ pc = "init" => rsp0 = "process" /\ current /\ loaded # "none"
  /\ loaded # "none" => program = loaded

\* What each source that kmain is past has come to.
Considered ==
  /\ pc \in {"start", "space", "disk", "mount", "file"} => loaded = "none"
  /\ pc = "module" => loaded \in {"none", "disk"}
  /\ pc \in PastDisk /\ Candidate("disk") => loaded = "disk" \/ frames = 0
  /\ pc \in PastDisk \ {"module"} /\ Candidate("module")
       => loaded \in {"disk", "module"} \/ frames = 0
  /\ pc \in {"decide", "init"} /\ Candidate("embedded") => loaded # "none" \/ frames = 0

Reading == AtaTypeOK /\ Copied /\ InOrder /\ Quiet /\ Fits /\ Honest
Inv == TypeOK /\ Reading /\ Probed /\ Prepared /\ Considered

-----------------------------------------------------------------------------
(* The driver and the drive *)

\* The commands and the status the driver and the drive write have their types.
LEMMA CommandTypes ==
  /\ NoCommand \in [lba : 0 .. LbaLimit, left : 0 .. MaxCount, seen : BOOLEAN]
  /\ NoCommand.left = 0 /\ NoCommand.seen = TRUE
  /\ \A b, d, e \in BOOLEAN :
       /\ Bits(b, d, e) \in [bsy : BOOLEAN, drq : BOOLEAN, err : BOOLEAN]
       /\ Bits(b, d, e).bsy = b /\ Bits(b, d, e).drq = d /\ Bits(b, d, e).err = e
  /\ \A l, n, t : [lba |-> l, left |-> n, seen |-> t] = NoCommand => n = 0
BY AtaAssumption DEF NoCommand, Bits

\* What the drive does beside the driver.
LEMMA DriveKeeps ==
  ASSUME Reading, DriveStep, pc' = pc
  PROVE  Reading'
<1>1. /\ AtaTypeOK /\ Copied /\ InOrder /\ Quiet /\ Fits /\ Honest
      /\ UNCHANGED <<drive, driver, request, buf>>
  BY DEF Reading, DriveStep, Ready, Notice, Deliver, Spoil
<1>2. /\ command \in [lba : 0 .. LbaLimit, left : 0 .. MaxCount, seen : BOOLEAN]
      /\ status \in [bsy : BOOLEAN, drq : BOOLEAN, err : BOOLEAN]
      /\ drive.kind \in {"floating", "zero", "drive"}
  BY <1>1 DEF AtaTypeOK, Drives
<1>3. Copied' /\ Fits'
  BY <1>1 DEF Copied, Fits
<1>4. CASE Ready
  <2>1. command' = command /\ status' = Bits(FALSE, FALSE, FALSE) /\ drive.kind = "drive"
    BY <1>4 DEF Ready
  <2>2. AtaTypeOK'
    BY <1>1, <2>1, CommandTypes DEF AtaTypeOK
  <2>3. InOrder' /\ Quiet'
    BY <1>1, <2>1 DEF InOrder, Quiet
  <2>4. Honest'
    BY <1>1, <2>1, CommandTypes DEF Honest
  <2> QED BY <1>3, <2>2, <2>3, <2>4 DEF Reading
<1>5. CASE Notice
  <2>1. /\ command' = [command EXCEPT !.seen = TRUE] /\ command.seen = FALSE
        /\ status' = Bits(TRUE, FALSE, FALSE)
    BY <1>2, <1>5 DEF Notice
  <2>2. /\ command # NoCommand /\ command'.lba = command.lba /\ command'.left = command.left
        /\ command' \in [lba : 0 .. LbaLimit, left : 0 .. MaxCount, seen : BOOLEAN]
    BY <1>2, <2>1, CommandTypes
  <2>3. AtaTypeOK'
    BY <1>1, <2>1, <2>2, CommandTypes DEF AtaTypeOK
  <2>4. InOrder' /\ Quiet'
    BY <1>1, <2>2 DEF InOrder, Quiet
  <2>5. Honest'
    BY <1>1, <2>1, <2>2, CommandTypes DEF Honest
  <2> QED BY <1>3, <2>3, <2>4, <2>5 DEF Reading
<1>6. CASE Deliver
  <2>1. command' = command /\ status' = Bits(FALSE, TRUE, FALSE) /\ command.left > 0
    BY <1>6 DEF Deliver, Working
  <2>2. AtaTypeOK'
    BY <1>1, <2>1, CommandTypes DEF AtaTypeOK
  <2>3. InOrder' /\ Quiet'
    BY <1>1, <2>1 DEF InOrder, Quiet
  <2>4. command # NoCommand
    BY <2>1, CommandTypes
  <2>5. drive.kind = "drive"
    BY <1>1, <1>2, <2>4 DEF Honest
  <2>6. Honest'
    BY <1>1, <2>1, <2>5, CommandTypes DEF Honest
  <2> QED BY <1>3, <2>2, <2>3, <2>6 DEF Reading
<1>7. CASE Spoil
  <2>1. /\ command' = NoCommand /\ status' = Bits(FALSE, FALSE, TRUE) /\ drive.faulty
        /\ command.left > 0
    BY <1>7 DEF Spoil, Working
  <2>2. AtaTypeOK'
    BY <1>1, <2>1, CommandTypes DEF AtaTypeOK
  <2>3. InOrder' /\ Quiet'
    BY <1>1, <2>1 DEF InOrder, Quiet
  <2>4. command # NoCommand
    BY <2>1, CommandTypes
  <2>5. drive.kind = "drive"
    BY <1>1, <1>2, <2>4 DEF Honest
  <2>6. Honest'
    BY <1>1, <2>1, <2>5, CommandTypes DEF Honest
  <2> QED BY <1>3, <2>2, <2>3, <2>6 DEF Reading
<1> QED BY <1>4, <1>5, <1>6, <1>7 DEF DriveStep

\* What ata_read_sectors does, sector after sector.
LEMMA DriverKeeps ==
  ASSUME Reading, AtaStep, pc' = pc
  PROVE  Reading'
<1>1. /\ AtaTypeOK /\ Copied /\ InOrder /\ Quiet /\ Fits /\ Honest
      /\ UNCHANGED <<drive, request>>
  BY DEF Reading, AtaStep, Command, NotBusy, CheckError, Transfer
<1>2. /\ command \in [lba : 0 .. LbaLimit, left : 0 .. MaxCount, seen : BOOLEAN]
      /\ status \in [bsy : BOOLEAN, drq : BOOLEAN, err : BOOLEAN]
      /\ request \in [lba : Nat, count : 0 .. MaxCount]
      /\ drive.kind \in {"floating", "zero", "drive"} /\ drive.late \in BOOLEAN
  BY <1>1 DEF AtaTypeOK, Drives
<1>3. /\ request.lba \in Nat /\ request.count \in Nat
      /\ LbaLimit \in Nat /\ LbaLimit > 0 /\ MaxCount \in Nat
      /\ buf \in Seq(Int) /\ Len(buf) \in Nat
  <2>1. \A n \in 0 .. MaxCount : n \in Nat
    BY AtaAssumption
  <2>2. \A q \in Seq(Int) : Len(q) \in Nat
    OBVIOUS
  <2> QED BY <1>1, <1>2, <2>1, <2>2, AtaAssumption DEF Copied
<1>4. CASE Command
  <2>1. /\ driver = "ready" /\ driver' = "busy" /\ buf' = buf
        /\ request.count > 0 /\ buf = <<>> /\ Len(buf) = 0 /\ command = NoCommand
    BY <1>1, <1>4 DEF Command, Fits, Quiet
  <2>2. Copied' /\ Fits'
    BY <1>1, <2>1 DEF Copied, Fits
  <2>3. CASE drive.kind # "drive"
    <3>1. command' = command /\ status' = status
      BY <1>4, <2>3 DEF Command
    <3>2. AtaTypeOK' /\ InOrder' /\ Quiet' /\ Honest'
      BY <1>1, <1>2, <2>1, <2>3, <3>1 DEF AtaTypeOK, InOrder, Quiet, Honest
    <3> QED BY <2>2, <3>2 DEF Reading
  <2>4. CASE drive.kind = "drive"
    <3>1. /\ command' = Asked(request.lba, request.count)
          /\ status' = status \/ status' = Bits(TRUE, FALSE, FALSE)
      BY <1>4, <2>4 DEF Command
    <3>2. request.lba < LbaLimit
      BY <1>1, <1>3, <2>1 DEF Fits
    <3>3. request.lba % LbaLimit = request.lba
      <4>1. \A x, w \in Nat : w > 0 /\ x < w => x % w = x
        OBVIOUS
      <4> QED BY <1>3, <3>2, <4>1
    <3>4. /\ command' \in [lba : 0 .. LbaLimit, left : 0 .. MaxCount, seen : BOOLEAN]
          /\ command'.lba = request.lba /\ command'.left = request.count
      BY <1>2, <1>3, <3>1, <3>2, <3>3 DEF Asked
    <3>5. AtaTypeOK'
      <4>1. status' \in [bsy : BOOLEAN, drq : BOOLEAN, err : BOOLEAN]
        <5>1. Bits(TRUE, FALSE, FALSE) \in [bsy : BOOLEAN, drq : BOOLEAN, err : BOOLEAN]
          BY CommandTypes
        <5> QED BY <1>2, <3>1, <5>1
      <4> QED BY <1>1, <2>1, <3>4, <4>1 DEF AtaTypeOK
    <3>6. InOrder' /\ Quiet'
      BY <1>1, <1>3, <2>1, <3>4 DEF InOrder, Quiet
    <3>7. Honest'
      BY <1>1, <2>1, <2>4, <3>1, <3>4, CommandTypes DEF Honest
    <3> QED BY <2>2, <3>5, <3>6, <3>7 DEF Reading
  <2> QED BY <2>3, <2>4
<1>5. CASE NotBusy
  <2>1. driver = "busy" /\ driver' = "check" /\ UNCHANGED <<status, command, buf>>
    BY <1>5 DEF NotBusy
  <2>2. AtaTypeOK' /\ Copied' /\ InOrder' /\ Quiet' /\ Fits' /\ Honest'
    BY <1>1, <2>1 DEF AtaTypeOK, Copied, InOrder, Quiet, Fits, Honest
  <2> QED BY <2>2 DEF Reading
<1>6. CASE CheckError
  <2>1. /\ driver = "check" /\ UNCHANGED <<status, command, buf>>
        /\ driver' = "wanted" \/ (driver' = "failed" /\ status.err)
    BY <1>6 DEF CheckError, ErrorSeen
  <2>2. AtaTypeOK' /\ Copied' /\ InOrder' /\ Quiet' /\ Fits' /\ Honest'
    BY <1>1, <2>1 DEF AtaTypeOK, Copied, InOrder, Quiet, Fits, Honest
  <2> QED BY <2>2 DEF Reading
<1>7. CASE Transfer
  <2>1. /\ driver = "wanted" /\ status.drq /\ buf' = Append(buf, Data) /\ command' = Taken
        /\ status' = Bits(command.left > 1, FALSE, FALSE)
        /\ driver' = IF Len(buf') >= request.count THEN "done" ELSE "busy"
    BY <1>7 DEF Transfer, DataReady, AllRead
  <2>2. drive.kind = "drive" /\ command.left > 0
    BY <1>1, <1>2, <2>1, CommandTypes DEF Honest
  <2>3. /\ command.lba = request.lba + Len(buf)
        /\ command.left = request.count - Len(buf)
        /\ Len(buf) < request.count
    BY <1>1, <2>1, <2>2, CommandTypes DEF InOrder
  <2>4. /\ buf' \in Seq(Int) /\ Len(buf') = Len(buf) + 1
        /\ buf'[Len(buf) + 1] = request.lba + Len(buf)
        /\ \A i \in 1 .. Len(buf) : buf'[i] = buf[i]
    <3>1. Data = request.lba + Len(buf) /\ Data \in Int
      BY <1>3, <2>1, <2>3 DEF Data
    <3> QED BY <1>3, <2>1, <3>1
  <2> DEFINE n == Len(buf)
  <2>5. Copied'
    <3>1. ASSUME NEW i \in 1 .. n + 1
          PROVE  buf'[i] = request.lba + i - 1
      <4>1. CASE i = n + 1
        <5>1. request.lba + n = request.lba + i - 1
          BY <1>3, <4>1
        <5> QED BY <2>4, <4>1, <5>1
      <4>2. CASE i # n + 1
        <5>1. i \in 1 .. n
          BY <1>3, <4>2
        <5> QED BY <1>1, <2>4, <5>1 DEF Copied
      <4> QED BY <4>1, <4>2
    <3> QED BY <1>1, <2>4, <3>1 DEF Copied
  <2>6. CASE command.left = 1
    <3>1. /\ command' = NoCommand /\ Len(buf') = request.count /\ driver' = "done"
          /\ status' = Bits(FALSE, FALSE, FALSE)
      <4>1. Len(buf') = request.count
        BY <1>3, <2>3, <2>4, <2>6
      <4>2. driver' = "done"
        BY <1>3, <2>1, <4>1
      <4>3. command' = NoCommand
        BY <2>1, <2>6 DEF Taken
      <4>4. (command.left > 1) = FALSE
        BY <2>6
      <4> QED BY <2>1, <4>1, <4>2, <4>3, <4>4
    <3>2. AtaTypeOK' /\ InOrder' /\ Quiet' /\ Fits' /\ Honest'
      BY <1>1, <2>2, <3>1, CommandTypes DEF AtaTypeOK, InOrder, Quiet, Fits, Honest
    <3> QED BY <2>5, <3>2 DEF Reading
  <2>7. CASE command.left # 1
    <3>1. /\ command' = [command EXCEPT !.lba = @ + 1, !.left = @ - 1]
          /\ Len(buf') < request.count /\ driver' = "busy"
          /\ status' = Bits(TRUE, FALSE, FALSE)
      <4>1. command.left \in Nat /\ command.left > 1
        BY <1>3, <2>2, <2>3, <2>7
      <4>2. Len(buf') < request.count /\ ~(Len(buf') >= request.count)
        BY <1>3, <2>3, <2>4, <4>1
      <4>3. driver' = "busy"
        BY <2>1, <4>2
      <4>4. command' = [command EXCEPT !.lba = @ + 1, !.left = @ - 1]
        BY <2>1, <4>1 DEF Taken
      <4>5. (command.left > 1) = TRUE
        BY <4>1
      <4> QED BY <2>1, <4>2, <4>3, <4>4, <4>5
    <3>2. /\ command' \in [lba : 0 .. LbaLimit, left : 0 .. MaxCount, seen : BOOLEAN]
          /\ command'.lba = command.lba + 1 /\ command'.left = command.left - 1
      <4>1. /\ command.lba + 1 \in 0 .. LbaLimit
            /\ command.left - 1 \in 0 .. MaxCount
        <5>1. request.lba + request.count <= LbaLimit /\ command.left \in 0 .. MaxCount
          BY <1>1, <1>2 DEF Fits
        <5> QED BY <1>3, <2>2, <2>3, <5>1
      <4> QED BY <1>2, <3>1, <4>1
    <3>3. AtaTypeOK'
      BY <1>1, <3>1, <3>2, CommandTypes DEF AtaTypeOK
    <3>4. InOrder' /\ Quiet' /\ Fits'
      <4>1. /\ command'.lba = request.lba + Len(buf')
            /\ command'.left = request.count - Len(buf')
        <5> DEFINE m == Len(buf')
        <5>1. /\ m = n + 1 /\ n \in Nat /\ request.lba \in Nat /\ request.count \in Nat
              /\ command.lba = request.lba + n /\ command.left = request.count - n
              /\ command'.lba = command.lba + 1 /\ command'.left = command.left - 1
          BY <1>3, <2>3, <2>4, <3>2
        <5> HIDE DEF n, m
        <5>2. command'.lba = request.lba + m /\ command'.left = request.count - m
          BY <5>1
        <5> QED BY <5>2 DEF m
      <4> QED BY <1>1, <3>1, <4>1 DEF InOrder, Quiet, Fits
    <3>5. Honest'
      BY <1>1, <2>2, <3>1, CommandTypes DEF Honest
    <3> QED BY <2>5, <3>3, <3>4, <3>5 DEF Reading
  <2> QED BY <2>6, <2>7
<1> QED BY <1>4, <1>5, <1>6, <1>7 DEF AtaStep

\* kmain asks for sectors the drive can name.
LEMMA StartKeeps ==
  ASSUME Reading, NEW lba \in Nat, NEW count \in 1 .. MaxCount, Start(lba, count),
         lba + count <= LbaLimit, pc \in {"mount", "file"}, pc' = pc
  PROVE  Reading'
<1>1. AtaTypeOK /\ Copied /\ InOrder /\ Quiet /\ Fits /\ Honest
  BY DEF Reading
<1>2. /\ driver = "idle" /\ driver' = "ready" /\ buf' = <<>>
      /\ request' = [lba |-> lba, count |-> count]
      /\ UNCHANGED <<drive, status, command>>
  BY DEF Start
<1>3. request' \in [lba : Nat, count : 0 .. MaxCount]
  BY <1>2, AtaAssumption
<1>4. Copied'
  BY <1>2 DEF Copied
<1>5. AtaTypeOK' /\ InOrder' /\ Quiet' /\ Honest'
  BY <1>1, <1>2, <1>3 DEF AtaTypeOK, InOrder, Quiet, Honest
<1>6. Fits'
  BY <1>2 DEF Fits
<1> QED BY <1>4, <1>5, <1>6 DEF Reading

\* A read returns, or the driver has nothing to do; kmain goes on where no read
\* begins unless the last one was done.
LEMMA IdleKeeps ==
  ASSUME Reading,
         \/ /\ Return /\ driver \in {"idle", "done", "failed"}
            /\ pc' \in {"mount", "file"} => driver = "done"
         \/ UNCHANGED ataVars /\ (pc' \in {"mount", "file"} => pc \in {"mount", "file"})
  PROVE  Reading'
<1>1. AtaTypeOK /\ Copied /\ InOrder /\ Quiet /\ Fits /\ Honest
  BY DEF Reading
<1>2. UNCHANGED <<drive, status, command, request, buf>> /\ (driver' = driver \/ driver' = "idle")
  BY DEF Return, ataVars
<1>3. AtaTypeOK' /\ Copied' /\ InOrder' /\ Fits'
  BY <1>1, <1>2 DEF AtaTypeOK, Copied, InOrder, Fits
<1>4. Quiet'
  BY <1>1, <1>2 DEF Quiet, Return, ataVars
<1>5. Honest'
  BY <1>1, <1>2 DEF Honest, Return, ataVars
<1> QED BY <1>3, <1>4, <1>5 DEF Reading

-----------------------------------------------------------------------------
(* kmain *)

\* What the variables of kmain can be, one by one.
LEMMA BootTypes ==
  ASSUME TypeOK
  PROVE  /\ machine.frames \in Nat /\ frames \in Nat /\ frames <= machine.frames
         /\ machine.frames \in 0 .. MaxFrames
         /\ machine.disk \in {"no_ext2", "no_init", "bad", "good"}
         /\ machine.module \in {"absent", "bad", "good"} /\ machine.embedded \in {"bad", "good"}
         /\ {MaxFrames, HeapFrames, SpaceFrames, ReadFrames, LoadFrames} \subseteq Nat
         /\ Range(Sources) = {"disk", "module", "embedded"}
         /\ loaded \in {"disk", "module", "embedded", "none"}
<1>1. Range(Sources) = {"disk", "module", "embedded"}
  BY DEF Range, Sources
<1>2. machine \in Machines /\ frames \in 0 .. machine.frames
  BY DEF TypeOK
<1> QED BY <1>1, <1>2, BootAssumption DEF TypeOK, Machines, Programs

\* What follows each source.
LEMMA AfterSource ==
  After("disk") = "module" /\ After("module") = "embedded" /\ After("embedded") = "decide"
BY DEF After

\* elf_load of a source: it is loaded, or it is bad, or no frame is left.
LEMMA TryLoadEffect ==
  ASSUME TypeOK, NEW source \in {"disk", "module", "embedded"}, NEW file \in {"bad", "good"},
         NEW room \in 0 .. machine.frames, TryLoad(source, file, room)
  PROVE  /\ frames' \in 0 .. room
         /\ loaded' \in {source, "none"}
         /\ program' = IF loaded' = "none" THEN program ELSE loaded'
         /\ file = "good" => loaded' = source \/ frames' = 0
         /\ pc' = After(source)
<1>1. LoadFrames \in Nat /\ room \in Nat
  BY BootAssumption, BootTypes
<1>2. CASE file = "good" /\ LoadFrames <= room
  BY <1>1, <1>2 DEF TryLoad
<1>3. CASE ~(file = "good" /\ LoadFrames <= room)
  BY <1>1, <1>3 DEF TryLoad
<1> QED BY <1>2, <1>3

\* A step of the disk alone leaves kmain where it is.
LEMMA DiskOnly ==
  ASSUME Inv, UNCHANGED bootVars, drive' = drive, Reading',
         driver' = driver \/ (driver # "unprobed" /\ driver' \notin {"unprobed", "absent"})
  PROVE  Inv'
<1>1. TypeOK /\ Probed /\ Prepared /\ Considered
  BY DEF Inv
<1>2. /\ UNCHANGED <<machine, pc, reads, frames, cr3, rsp0, idt, rootfs, loaded, program, current>>
      /\ AtaTypeOK'
  BY DEF bootVars, Reading
<1>3. TypeOK'
  BY <1>1, <1>2 DEF TypeOK
<1>4. Probed'
  BY <1>1, <1>2 DEF Probed
<1>5. Prepared' /\ Considered'
  BY <1>1, <1>2 DEF Prepared, Considered, Candidate
<1> QED BY <1>3, <1>4, <1>5 DEF Inv

\* kmain starts with an empty buffer, no request and no source loaded.
LEMMA InitInv == Init => Inv
<1> SUFFICES ASSUME Init PROVE Inv
  OBVIOUS
<1>1. /\ drive \in Drives /\ command = NoCommand /\ driver = "unprobed"
      /\ request = NoRequest /\ buf = <<>> /\ machine \in Machines
      /\ pc = "start" /\ reads = 0 /\ frames = 0 /\ cr3 = "limine" /\ rsp0 = "none"
      /\ idt = FALSE /\ rootfs = FALSE /\ current = FALSE
      /\ loaded = "none" /\ program = "none"
      /\ drive.kind # "drive" => machine.disk = "no_ext2"
  BY DEF Init, AtaInit
<1>2. drive.kind \in {"floating", "zero", "drive"}
  BY <1>1 DEF Drives
<1>3. status = IF drive.kind = "floating" THEN Bits(TRUE, TRUE, TRUE)
               ELSE IF drive.kind = "zero" THEN Bits(FALSE, FALSE, FALSE)
               ELSE Bits(TRUE, FALSE, FALSE)
  BY DEF Init, AtaInit
<1>4. AtaTypeOK
  <2>1. status \in [bsy : BOOLEAN, drq : BOOLEAN, err : BOOLEAN]
    BY <1>3, CommandTypes
  <2>2. request \in [lba : Nat, count : 0 .. MaxCount]
    BY <1>1, AtaAssumption DEF NoRequest
  <2> QED BY <1>1, <2>1, <2>2, CommandTypes DEF AtaTypeOK
<1>5. Copied /\ InOrder /\ Quiet
  BY <1>1 DEF Copied, InOrder, Quiet
<1>6. Fits
  BY <1>1, AtaAssumption DEF Fits, NoRequest
<1>7. Honest
  BY <1>1, <1>2, <1>3, CommandTypes DEF Honest
<1>8. TypeOK
  <2>1. machine.frames \in Nat /\ MaxReads \in Nat
    BY <1>1, BootAssumption DEF Machines
  <2>2. frames \in 0 .. machine.frames /\ reads \in 0 .. MaxReads
    BY <1>1, <2>1
  <2> QED BY <1>1, <1>4, <2>2 DEF TypeOK
<1>9. Probed /\ Prepared /\ Considered
  BY <1>1 DEF Probed, Prepared, Considered, Searching, PastDisk
<1> QED BY <1>4, <1>5, <1>6, <1>7, <1>8, <1>9 DEF Inv, Reading

\* The step of each part of kmain keeps the invariant.
LEMMA NextInv == Inv /\ [Next]_vars => Inv'
<1> SUFFICES ASSUME Inv, [Next]_vars PROVE Inv'
  OBVIOUS
<1>1. /\ TypeOK /\ Reading /\ Probed /\ Prepared /\ Considered
      /\ AtaTypeOK /\ Honest
  BY DEF Inv, Reading
<1>2. /\ machine.frames \in Nat /\ frames \in Nat /\ frames <= machine.frames
      /\ machine.disk \in {"no_ext2", "no_init", "bad", "good"}
      /\ machine.module \in {"absent", "bad", "good"} /\ machine.embedded \in {"bad", "good"}
      /\ HeapFrames \in Nat /\ SpaceFrames \in Nat /\ ReadFrames \in Nat
      /\ loaded \in {"disk", "module", "embedded", "none"}
  BY <1>1, BootTypes
<1>3. Range(Sources) = {"disk", "module", "embedded"}
  BY <1>1, BootTypes
<1>4. ASSUME UNCHANGED ataVars, pc' \in {"mount", "file"} => pc \in {"mount", "file"}
      PROVE  Reading' /\ AtaTypeOK' /\ driver' = driver /\ drive' = drive
  BY <1>1, <1>4, IdleKeeps DEF Reading, ataVars
<1>5. ASSUME NoFramebuffer
      PROVE  Inv'
  <2>1. /\ pc = "start" /\ pc' = "halted"
        /\ UNCHANGED <<machine, reads, frames, cr3, rsp0, idt, rootfs, loaded, program, current, ataVars>>
    BY <1>5 DEF NoFramebuffer
  <2>2. Reading' /\ AtaTypeOK' /\ driver' = driver /\ drive' = drive
    BY <1>4, <2>1
  <2>3. TypeOK'
    BY <1>1, <2>1, <2>2 DEF TypeOK
  <2>4. Probed' /\ Prepared' /\ Considered'
    BY <1>1, <2>1, <2>2 DEF Probed, Prepared, Considered, Searching, PastDisk
  <2> QED BY <2>2, <2>3, <2>4 DEF Inv
<1>6. ASSUME SetUp
      PROVE  Inv'
  <2>1. /\ pc = "start" /\ pc' = "space" /\ rsp0' = "kmain" /\ idt' = TRUE
        /\ frames' = IF machine.memmap /\ HeapFrames <= machine.frames
                       THEN machine.frames - HeapFrames ELSE 0
        /\ UNCHANGED <<machine, reads, cr3, rootfs, loaded, program, current, ataVars>>
    BY <1>6 DEF SetUp
  <2>2. Reading' /\ AtaTypeOK' /\ driver' = driver /\ drive' = drive
    BY <1>4, <2>1
  <2>3. frames' \in 0 .. machine.frames
    BY <1>2, <2>1
  <2>4. TypeOK'
    BY <1>1, <2>1, <2>2, <2>3 DEF TypeOK
  <2>5. Probed' /\ Prepared' /\ Considered'
    BY <1>1, <2>1, <2>2 DEF Probed, Prepared, Considered, Searching, PastDisk
  <2> QED BY <2>2, <2>4, <2>5 DEF Inv
<1>7. ASSUME CreateSpace
      PROVE  Inv'
  <2>1. /\ pc = "space" /\ frames' = Left(SpaceFrames)
        /\ \/ SpaceFrames <= frames /\ cr3' = "user" /\ pc' = "disk"
           \/ pc' = "shell" /\ UNCHANGED cr3
        /\ UNCHANGED <<machine, reads, rsp0, idt, rootfs, loaded, program, current, ataVars>>
    BY <1>7 DEF CreateSpace
  <2>2. Reading' /\ AtaTypeOK' /\ driver' = driver /\ drive' = drive
    BY <1>4, <2>1
  <2>3. frames' \in 0 .. machine.frames
    BY <1>2, <2>1 DEF Left
  <2>4. TypeOK'
    BY <1>1, <1>3, <2>1, <2>2, <2>3 DEF TypeOK
  <2>5. Probed' /\ Prepared' /\ Considered'
    BY <1>1, <2>1, <2>2 DEF Probed, Prepared, Considered, Searching, PastDisk
  <2> QED BY <2>2, <2>4, <2>5 DEF Inv
<1>8. ASSUME ProbeDisk
      PROVE  Inv'
  <2>1. /\ pc = "disk" /\ driver = "unprobed" /\ command = NoCommand
        /\ UNCHANGED <<drive, status, command, request, buf>>
        /\ \/ status = Bits(TRUE, TRUE, TRUE) /\ driver' = "absent" /\ pc' = "module"
           \/ status # Bits(TRUE, TRUE, TRUE) /\ driver' = "idle" /\ pc' = "mount"
        /\ UNCHANGED <<machine, reads, frames, cr3, rsp0, idt, rootfs, loaded, program, current>>
    BY <1>1, <1>8, AfterSource DEF ProbeDisk, Probe, Reading, Quiet
  <2>2. driver' = "absent" => machine.disk = "no_ext2"
    <3>1. status = Bits(TRUE, TRUE, TRUE) => status.drq
      BY CommandTypes
    <3>2. status.drq => drive.kind = "floating"
      BY <1>1, <2>1, CommandTypes DEF Honest
    <3> QED BY <1>1, <2>1, <3>1, <3>2 DEF Probed
  <2>3. Reading' /\ AtaTypeOK'
    <3>1. AtaTypeOK' /\ Copied' /\ InOrder' /\ Quiet' /\ Fits'
      BY <1>1, <2>1 DEF Reading, AtaTypeOK, Copied, InOrder, Quiet, Fits
    <3>2. Honest'
      BY <1>1, <2>1 DEF Honest
    <3> QED BY <3>1, <3>2 DEF Reading
  <2>4. TypeOK'
    BY <1>1, <1>3, <2>1, <2>3 DEF TypeOK
  <2>5. Probed' /\ Prepared' /\ Considered'
    BY <1>1, <2>1, <2>2 DEF Probed, Prepared, Considered, Searching, PastDisk, Candidate
  <2> QED BY <2>3, <2>4, <2>5 DEF Inv
<1>9. ASSUME ReadSuper
       PROVE  Inv'
  <2>1. /\ pc = "mount" /\ Start(SuperLba, 2) /\ UNCHANGED bootVars /\ pc' = pc
    BY <1>9 DEF ReadSuper, bootVars
  <2>2. SuperLba \in Nat /\ 2 \in 1 .. MaxCount /\ SuperLba + 2 <= LbaLimit
    BY BootAssumption, AtaAssumption
  <2>3. Reading'
    BY <1>1, <2>1, <2>2, StartKeeps
  <2> QED BY <2>1, <2>3, DiskOnly DEF Start
<1>10. ASSUME DiskStep
       PROVE  Inv'
  <2>1. AtaStep /\ UNCHANGED bootVars /\ pc' = pc
    BY <1>10 DEF DiskStep, bootVars
  <2>2. /\ drive' = drive
        /\ driver # "unprobed" /\ driver' \notin {"unprobed", "absent"}
    BY <2>1 DEF AtaStep, Command, NotBusy, CheckError, Transfer
  <2> QED BY <1>1, <2>1, <2>2, DriverKeeps, DiskOnly
<1>11. ASSUME NotMounted
       PROVE  Inv'
  <2>1. /\ pc = "mount" /\ driver \in {"done", "failed"} /\ pc' = "module"
        /\ driver = "failed" \/ machine.disk = "no_ext2"
        /\ Return /\ driver' = "idle" /\ drive' = drive
        /\ UNCHANGED <<machine, reads, frames, cr3, rsp0, idt, rootfs, loaded, program, current>>
    BY <1>11, AfterSource DEF NotMounted, Done, Return
  <2>2. Reading' /\ AtaTypeOK'
    BY <1>1, <2>1, IdleKeeps DEF Reading
  <2>3. drive.faulty \/ machine.disk = "no_ext2"
    BY <1>1, <2>1 DEF Honest
  <2>4. TypeOK'
    BY <1>1, <1>3, <2>1, <2>2 DEF TypeOK
  <2>5. Probed' /\ Prepared' /\ Considered'
    BY <1>1, <2>1, <2>3 DEF Probed, Prepared, Considered, Searching, PastDisk, Candidate
  <2> QED BY <2>2, <2>4, <2>5 DEF Inv
<1>12. ASSUME Mounted
       PROVE  Inv'
  <2>1. /\ pc = "mount" /\ driver = "done" /\ pc' = "file" /\ rootfs' = TRUE
        /\ Return /\ driver' = "idle" /\ drive' = drive
        /\ UNCHANGED <<machine, reads, frames, cr3, rsp0, idt, loaded, program, current>>
    BY <1>12 DEF Mounted, Return
  <2>2. Reading' /\ AtaTypeOK'
    BY <1>1, <2>1, IdleKeeps DEF Reading
  <2>3. TypeOK'
    BY <1>1, <2>1, <2>2 DEF TypeOK
  <2>4. Probed' /\ Prepared' /\ Considered'
    BY <1>1, <2>1 DEF Probed, Prepared, Considered, Searching, PastDisk, Candidate
  <2> QED BY <2>2, <2>3, <2>4 DEF Inv
<1>13. ASSUME ReadBlock
       PROVE  Inv'
  <2>1. /\ pc = "file" /\ reads < MaxReads /\ reads' = reads + 1
        /\ UNCHANGED <<machine, pc, frames, cr3, rsp0, idt, rootfs, loaded, program, current>>
    BY <1>13 DEF ReadBlock
  <2>2. PICK lba \in BlockLbas : Start(lba, BlockSectors)
    BY <1>13 DEF ReadBlock
  <2>3. driver' = "ready" /\ drive' = drive
    BY <2>2 DEF Start
  <2>4. lba \in Nat /\ BlockSectors \in 1 .. MaxCount /\ lba + BlockSectors <= LbaLimit
    BY BootAssumption, AtaAssumption
  <2>5. Reading' /\ AtaTypeOK'
    BY <1>1, <2>1, <2>2, <2>4, StartKeeps DEF Reading
  <2>6. reads' \in 0 .. MaxReads
    BY <1>1, <2>1, BootAssumption DEF TypeOK
  <2>7. TypeOK'
    BY <1>1, <2>1, <2>5, <2>6 DEF TypeOK
  <2>8. Probed' /\ Prepared' /\ Considered'
    BY <1>1, <2>1, <2>3 DEF Probed, Prepared, Considered, Searching, PastDisk, Candidate
  <2> QED BY <2>5, <2>7, <2>8 DEF Inv
<1>14. ASSUME GotBlock
       PROVE  Inv'
  <2>1. pc = "file" /\ driver = "done" /\ Return /\ UNCHANGED bootVars /\ pc' = pc
    BY <1>14 DEF GotBlock, bootVars
  <2>2. driver' = "idle" /\ drive' = drive
    BY <2>1 DEF Return
  <2> QED BY <1>1, <2>1, <2>2, IdleKeeps, DiskOnly
<1>15. ASSUME Unreadable
       PROVE  Inv'
  <2>1. /\ pc = "file" /\ pc' = "module"
        /\ driver = "failed" \/ (driver = "idle" /\ machine.disk = "no_init")
        /\ Return /\ driver' = "idle" /\ drive' = drive
        /\ frames' \in {frames, Left(ReadFrames)}
        /\ UNCHANGED <<machine, reads, cr3, rsp0, idt, rootfs, loaded, program, current>>
    BY <1>15, AfterSource DEF Unreadable, Looked, Return
  <2>2. Reading' /\ AtaTypeOK'
    BY <1>1, <2>1, IdleKeeps DEF Reading
  <2>3. drive.faulty \/ machine.disk = "no_init"
    BY <1>1, <2>1 DEF Honest
  <2>4. frames' \in 0 .. machine.frames
    BY <1>2, <2>1 DEF Left
  <2>5. TypeOK'
    BY <1>1, <1>3, <2>1, <2>2, <2>4 DEF TypeOK
  <2>6. Probed' /\ Prepared' /\ Considered'
    BY <1>1, <2>1, <2>3 DEF Probed, Prepared, Considered, Searching, PastDisk, Candidate
  <2> QED BY <2>2, <2>5, <2>6 DEF Inv
<1>16. ASSUME NoBuffer
       PROVE  Inv'
  <2>1. /\ pc = "file" /\ pc' = "module" /\ frames' = 0
        /\ UNCHANGED <<machine, reads, cr3, rsp0, idt, rootfs, loaded, program, current, ataVars>>
    BY <1>16, AfterSource DEF NoBuffer
  <2>2. Reading' /\ AtaTypeOK' /\ driver' = driver /\ drive' = drive
    BY <1>4, <2>1
  <2>3. frames' \in 0 .. machine.frames
    BY <1>2, <2>1
  <2>4. TypeOK'
    BY <1>1, <1>3, <2>1, <2>2, <2>3 DEF TypeOK
  <2>5. Probed' /\ Prepared' /\ Considered'
    BY <1>1, <2>1, <2>2 DEF Probed, Prepared, Considered, Searching, PastDisk, Candidate
  <2> QED BY <2>2, <2>4, <2>5 DEF Inv
<1>17. ASSUME NEW source \in {"disk", "module", "embedded"}, NEW file \in {"bad", "good"},
              NEW room \in 0 .. frames, TryLoad(source, file, room),
              pc = (IF source = "disk" THEN "file" ELSE source), loaded = "none",
              file = (IF source = "disk" THEN machine.disk
                      ELSE IF source = "module" THEN machine.module ELSE machine.embedded),
              UNCHANGED <<machine, reads, cr3, rsp0, idt, rootfs, current, ataVars>>
       PROVE  Inv'
  <2>1. room \in 0 .. machine.frames
    BY <1>2
  <2>2. /\ frames' \in 0 .. room
        /\ loaded' \in {source, "none"}
        /\ program' = IF loaded' = "none" THEN program ELSE loaded'
        /\ file = "good" => loaded' = source \/ frames' = 0
        /\ pc' = After(source)
    BY <1>1, <1>17, <2>1, TryLoadEffect
  <2>3. /\ pc' \in {"module", "embedded", "decide"}
        /\ source = "disk" => pc' = "module"
        /\ source = "module" => pc' = "embedded"
        /\ source = "embedded" => pc' = "decide"
    BY <2>2, AfterSource
  <2>4. Reading' /\ AtaTypeOK' /\ driver' = driver /\ drive' = drive
    BY <1>4, <1>17, <2>3
  <2>5. frames' \in 0 .. machine.frames /\ (frames = 0 => frames' = 0)
    BY <1>2, <2>2
  <2>6. TypeOK'
    BY <1>1, <1>3, <1>17, <2>2, <2>3, <2>4, <2>5 DEF TypeOK
  <2>7. Probed' /\ Prepared'
    BY <1>1, <1>17, <2>2, <2>3, <2>4 DEF Probed, Prepared, Searching, PastDisk
  <2>8. Considered'
    BY <1>1, <1>17, <2>2, <2>3, <2>4, <2>5 DEF Considered, PastDisk, Candidate
  <2> QED BY <2>4, <2>6, <2>7, <2>8 DEF Inv
<1>18. ASSUME LoadDisk
       PROVE  Inv'
  <2>1. /\ pc = "file" /\ machine.disk \in {"bad", "good"} /\ ReadFrames <= frames
        /\ TryLoad("disk", machine.disk, frames - ReadFrames)
        /\ UNCHANGED <<machine, reads, cr3, rsp0, idt, rootfs, current, ataVars>>
    BY <1>18 DEF LoadDisk, Programs
  <2>2. frames - ReadFrames \in 0 .. frames /\ loaded = "none"
    BY <1>1, <1>2, <2>1 DEF Considered
  <2> QED BY <1>17, <2>1, <2>2
<1>19. ASSUME LoadModule
       PROVE  Inv'
  <2>1. /\ pc = "module" /\ loaded = "none" /\ machine.module \in {"bad", "good"}
        /\ TryLoad("module", machine.module, frames)
        /\ UNCHANGED <<machine, reads, cr3, rsp0, idt, rootfs, current, ataVars>>
    BY <1>2, <1>19 DEF LoadModule, Wanted
  <2>2. frames \in 0 .. frames
    BY <1>2
  <2> QED BY <1>17, <2>1, <2>2
<1>20. ASSUME LoadEmbedded
       PROVE  Inv'
  <2>1. /\ pc = "embedded" /\ loaded = "none"
        /\ TryLoad("embedded", machine.embedded, frames)
        /\ UNCHANGED <<machine, reads, cr3, rsp0, idt, rootfs, current, ataVars>>
    BY <1>20 DEF LoadEmbedded, Wanted
  <2>2. frames \in 0 .. frames
    BY <1>2
  <2> QED BY <1>2, <1>17, <2>1, <2>2
<1>21. ASSUME SkipModule \/ SkipEmbedded \/ FallBack \/ EnterInit \/ FirstCall
       PROVE  Inv'
  <2>1. /\ pc \in {"module", "embedded", "decide", "init", "shell"}
        /\ UNCHANGED <<machine, reads, frames, cr3, idt, rootfs, loaded, program, ataVars>>
        /\ \/ /\ pc = "module" /\ pc' = "embedded" /\ UNCHANGED <<rsp0, current>>
              /\ loaded # "none" \/ machine.module = "absent"
           \/ pc = "embedded" /\ pc' = "decide" /\ loaded # "none" /\ UNCHANGED <<rsp0, current>>
           \/ pc = "decide" /\ pc' = "shell" /\ UNCHANGED <<rsp0, current>>
           \/ /\ pc = "decide" /\ pc' = "init" /\ loaded # "none"
              /\ rsp0' = "process" /\ current' = TRUE
           \/ pc' \in {"runs", "faulted"} /\ UNCHANGED <<rsp0, current>>
    BY <1>21, AfterSource
    DEF SkipModule, SkipEmbedded, FallBack, EnterInit, Bootstrap, FirstCall, Wanted
  <2>2. Reading' /\ AtaTypeOK' /\ driver' = driver /\ drive' = drive
    BY <1>4, <2>1
  <2>3. TypeOK'
    BY <1>1, <1>3, <2>1, <2>2 DEF TypeOK
  <2>4. Probed' /\ Prepared'
    BY <1>1, <2>1, <2>2 DEF Probed, Prepared, Searching, PastDisk
  <2>5. Considered'
    BY <1>1, <1>2, <2>1, <2>2 DEF Considered, PastDisk, Candidate
  <2> QED BY <2>2, <2>3, <2>4, <2>5 DEF Inv
<1>22. ASSUME Drive
       PROVE  Inv'
  <2>1. DriveStep /\ UNCHANGED bootVars /\ pc' = pc
    BY <1>22 DEF Drive, bootVars
  <2>2. drive' = drive /\ driver' = driver
    BY <2>1 DEF DriveStep, Ready, Notice, Deliver, Spoil
  <2> QED BY <1>1, <2>1, <2>2, DriveKeeps, DiskOnly
<1>23. ASSUME UNCHANGED vars
       PROVE  Inv'
  <2>1. UNCHANGED bootVars /\ UNCHANGED ataVars /\ pc' = pc
    BY <1>23 DEF vars, bootVars
  <2> QED BY <1>4, <2>1, DiskOnly
<1> QED
  BY <1>5, <1>6, <1>7, <1>8, <1>9, <1>10, <1>11, <1>12, <1>13, <1>14, <1>15, <1>16,
     <1>18, <1>19, <1>20, <1>21, <1>22, <1>23
  DEF Next, Kmain, Poll, Stopped

\* The invariant holds in every state of the boot.
THEOREM Invariance == Spec => []Inv
<1> QED BY InitInv, NextInv, PTL DEF Spec

-----------------------------------------------------------------------------
(* What the boot promises *)

\* ata_read_sectors: a read that succeeds has copied the sectors that were asked
\* for, each once and in their order, whatever the drive does and how late it
\* does it.
THEOREM ReadsRight == Spec => []ReadsWhatWasAsked
<1>1. Inv => ReadsWhatWasAsked
  <2> SUFFICES ASSUME Inv, driver = "done"
               PROVE  buf = [i \in 1 .. request.count |-> request.lba + i - 1]
    BY DEF ReadsWhatWasAsked
  <2>1. /\ buf \in Seq(Int) /\ Len(buf) = request.count
        /\ \A i \in 1 .. Len(buf) : buf[i] = request.lba + i - 1
    BY DEF Inv, Reading, Copied, Fits
  <2> QED BY <2>1
<1> QED BY <1>1, Invariance, PTL

\* kmain enters init as a process: in its own address space, with the entry point
\* and the break of the program that was loaded, with descriptor tables and a
\* stack for its system calls, and with a file system when there is one.
THEOREM InitStartsAsProcess == Spec => []InitIsProcess
<1>1. Inv => InitIsProcess
  BY DEF Inv, InitIsProcess, Prepared, Searching, PastDisk
<1> QED BY <1>1, Invariance, PTL

\* kmain takes the first good program of disk, module and kernel, and passes one
\* over only when no page frame is left.
THEOREM FirstGoodIsLoaded == Spec => []FirstGoodSource
<1>1. Inv => FirstGoodSource
  <2> SUFFICES ASSUME Inv, pc \in {"decide", "init"}, NEW i \in 1 .. 3, Candidate(Sources[i])
               PROVE  (\E j \in 1 .. i : loaded = Sources[j]) \/ frames = 0
    BY DEF FirstGoodSource
  <2>1. Sources[1] = "disk" /\ Sources[2] = "module" /\ Sources[3] = "embedded"
    BY DEF Sources
  <2>2. /\ Candidate("disk") => loaded = "disk" \/ frames = 0
        /\ Candidate("module") => loaded \in {"disk", "module"} \/ frames = 0
        /\ Candidate("embedded") => loaded # "none" \/ frames = 0
        /\ loaded \in {"disk", "module", "embedded", "none"}
    BY BootTypes DEF Inv, Considered, PastDisk
  <2>3. CASE i = 1
    BY <2>1, <2>2, <2>3
  <2>4. CASE i = 2
    <3>1. 1 \in 1 .. 2 /\ 2 \in 1 .. 2
      OBVIOUS
    <3> QED BY <2>1, <2>2, <2>4, <3>1
  <2>5. CASE i = 3
    <3>1. 1 \in 1 .. 3 /\ 2 \in 1 .. 3 /\ 3 \in 1 .. 3
      OBVIOUS
    <3> QED BY <2>1, <2>2, <2>5, <3>1
  <2> QED BY <2>3, <2>4, <2>5
<1> QED BY <1>1, Invariance, PTL
=============================================================================
