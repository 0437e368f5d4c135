------------------------------- MODULE AtaPio -------------------------------
(***************************************************************************)
(* The PIO disk driver of src/drivers/ata.c and the registration of its    *)
(* device with src/fs/storage.c.  The drive runs beside the processor: it  *)
(* answers a command late, with an error or not within the 100000 polls of *)
(* ata_wait_ready, and it stores the data of a write after the driver has  *)
(* gone on.  The drive is not part of the source; like the emulated one it *)
(* ignores a command while it is busy or waits to transfer data.           *)
(***************************************************************************)
EXTENDS Integers, Sequences, FiniteSets

CONSTANTS LbaSpace,    \* 2^28
          Counts,      \* sector counts callers pass
          MaxPolls,    \* timeout of ata_wait_ready
          Attempts,    \* 3
          MaxCalls     \* bound of the model: reads and writes

ASSUME AtaAssumption ==
    /\ {LbaSpace, MaxPolls, Attempts} \subseteq Nat \ {0}
    /\ Counts \subseteq Nat \ {0} /\ MaxCalls \in Nat

Lbas == 0 .. LbaSpace - 1
Value == (0 .. MaxCalls) \X Nat      \* a sector: <<write call, position>>
Garbage == <<0, LbaSpace>>
None == "none"

VARIABLES default_dev,   \* of storage.c
          functions,     \* ata_dev.read and ata_dev.write are set
          drive,         \* state, command in progress, data it must store
          media,         \* what the sectors hold
          apc, call,     \* the running ata_read28 or ata_write28
          buf,           \* sectors a read has copied to the caller
          calls,
          shadow,        \* history: last value the driver reported written
          asked,         \* history: sectors some write call named
          lost,          \* history: sectors whose reported write failed
          confused       \* history: a call began during an abandoned command

driver == <<default_dev, functions, apc, call, buf, calls>>
ataHistory == <<shadow, asked, lost, confused>>
ataVars == <<driver, drive, media, ataHistory>>

NoCall == [op |-> None, lba |-> 0, count |-> 0, c |-> 0, attempt |-> 0, polls |-> 0]

PowerOn ==
    /\ default_dev = None /\ functions = FALSE
    /\ drive = [st |-> "idle", op |-> None, lba |-> 0, data |-> Garbage]
    /\ media = [l \in Lbas |-> <<0, l>>]
    /\ apc = "boot" /\ call = NoCall /\ buf = <<>> /\ calls = 0
    /\ shadow = media /\ asked = {} /\ lost = {} /\ confused = FALSE

-----------------------------------------------------------------------------
(* Boot.                                                                   *)

(* storage_register: the default device afterwards.                        *)
StorageRegister(canRead) ==
    IF canRead /\ default_dev = None THEN "ata0" ELSE default_dev

(* ata_identify_primary finds a drive and registers the device, whose      *)
(* read and write functions are still 0; ata_init sets them.  So the       *)
(* registration is refused and default_dev stays 0: what follows is how    *)
(* the driver behaves when its functions are called.                       *)
Identify ==
    /\ apc = "boot"
    /\ default_dev' = StorageRegister(FALSE)
    /\ apc' = "identified"
    /\ UNCHANGED <<functions, drive, media, call, buf, calls, ataHistory>>

AtaInit ==
    /\ apc = "identified"
    /\ functions' = TRUE
    /\ apc' = "done"
    /\ UNCHANGED <<default_dev, drive, media, call, buf, calls, ataHistory>>

(* No status, BSY for too long, ERR or no DRQ: there is no device.         *)
IdentifyFails ==
    /\ apc = "boot"
    /\ apc' = "off"
    /\ UNCHANGED <<default_dev, functions, drive, media, call, buf, calls, ataHistory>>

-----------------------------------------------------------------------------
(* The driver.                                                             *)

(* What the task file registers hold of the address lba + k: the drive's   *)
(* select register has room for bits 24 to 27 only.                        *)
Address(lba, k) == (lba + k) % LbaSpace

(* A read or write begins.  Only its first address is tested, so it may    *)
(* run past the last one.  calls numbers the data of a write.              *)
Call(op, lba, count) ==
    /\ apc = "done" /\ functions /\ calls < MaxCalls
    /\ lba \in Lbas
    /\ call' = [NoCall EXCEPT !.op = op, !.lba = lba, !.count = count]
    /\ buf' = <<>>
    /\ calls' = calls + 1
    /\ apc' = "issue"
    /\ asked' = IF op = "write" THEN asked \cup {Address(lba, k) : k \in 0 .. count - 1}
                               ELSE asked
    /\ confused' = (confused \/ drive.st \in {"busy", "drq"})
    /\ UNCHANGED <<default_dev, functions, drive, media, shadow, lost>>

(* No device, no sectors, or a first address beyond 28 bits: 0, nothing    *)
(* done.                                                                   *)
CallRefused ==
    /\ apc \in {"done", "off"}
    /\ UNCHANGED ataVars

(* Mutant: the address moves on with the attempts.                         *)
MutCur == Address(call.lba, call.c + call.attempt)

Cur == Address(call.lba, call.c)

(* The task file registers and the command.                                *)
Issue ==
    /\ apc = "issue"
    /\ drive' = IF drive.st \in {"idle", "err"}
                  THEN [drive EXCEPT !.st = "busy", !.op = call.op, !.lba = Cur]
                  ELSE drive
    /\ call' = [call EXCEPT !.polls = MaxPolls]
    /\ apc' = "wait"
    /\ UNCHANGED <<default_dev, functions, media, buf, calls, ataHistory>>

(* ata_wait_ready, one look at the status register.                        *)
PollReady ==
    /\ apc = "wait" /\ drive.st = "drq"
    /\ apc' = "move"
    /\ UNCHANGED <<default_dev, functions, drive, media, call, buf, calls, ataHistory>>

(* Mutant: polls are not counted.                                          *)
MutPollsLeft == call.polls

PollsLeft == call.polls - 1

PollAgain ==
    /\ apc = "wait" /\ drive.st \notin {"drq", "err"} /\ call.polls > 1
    /\ call' = [call EXCEPT !.polls = PollsLeft]
    /\ UNCHANGED <<default_dev, functions, drive, media, apc, buf, calls, ataHistory>>

LastAttempt == call.attempt + 1 = Attempts

(* ERR, or the last poll: the next attempt, or the end of the call, which  *)
(* returns the number c of sectors done.                                   *)
AttemptFails ==
    /\ apc = "wait"
    /\ drive.st = "err" \/ (drive.st # "drq" /\ call.polls = 1)
    /\ apc' = IF LastAttempt THEN "done" ELSE "issue"
    /\ call' = [call EXCEPT !.polls = 0, !.attempt = IF LastAttempt THEN @ ELSE @ + 1]
    /\ UNCHANGED <<default_dev, functions, drive, media, buf, calls, ataHistory>>

NextSector ==
    /\ call' = [call EXCEPT !.c = @ + 1, !.attempt = 0, !.polls = 0]
    /\ apc' = IF call.c + 1 = call.count THEN "done" ELSE "issue"

(* Mutant: a failed attempt has moved the buffer pointer.                  *)
MutStored(x) == IF call.attempt = 0 THEN Append(buf, x)
                ELSE Append(Append(buf, Garbage), x)

(* *buf++, 256 times.                                                      *)
Stored(x) == Append(buf, x)

(* 256 words from the data register; the drive answers the command it is   *)
(* working on, whatever the driver believes that is.                       *)
MoveIn ==
    /\ apc = "move" /\ call.op = "read"
    /\ buf' = Stored(IF drive.op = "read" THEN media[drive.lba] ELSE Garbage)
    /\ drive' = IF drive.op = "read" THEN [drive EXCEPT !.st = "idle"] ELSE drive
    /\ NextSector
    /\ UNCHANGED <<default_dev, functions, media, calls, ataHistory>>

(* Mutant: the buffer pointer has moved on at a repeated attempt.          *)
MutSectorData == <<calls, call.c + call.attempt>>

SectorData == <<calls, call.c>>

(* 256 words to the data register; the drive then stores them on its own.  *)
MoveOut ==
    /\ apc = "move" /\ call.op = "write"
    /\ drive' = IF drive.op = "write"
                  THEN [drive EXCEPT !.st = "storing", !.data = SectorData]
                  ELSE drive
    /\ shadow' = [shadow EXCEPT ![Address(call.lba, call.c)] = <<calls, call.c>>]
    /\ NextSector
    /\ UNCHANGED <<default_dev, functions, media, buf, calls, asked, lost, confused>>

-----------------------------------------------------------------------------
(* The drive.                                                              *)

DriveAnswers ==
    /\ drive.st = "busy"
    /\ \E st \in {"drq", "err"} : drive' = [drive EXCEPT !.st = st]
    /\ UNCHANGED <<driver, media, ataHistory>>

DriveStores ==
    /\ drive.st = "storing"
    /\ drive' = [drive EXCEPT !.st = "idle"]
    /\ media' = [media EXCEPT ![drive.lba] = drive.data]
    /\ lost' = lost \ {drive.lba}
    /\ UNCHANGED <<driver, shadow, asked, confused>>

DriveStoreFails ==
    /\ drive.st = "storing"
    /\ drive' = [drive EXCEPT !.st = "err"]
    /\ lost' = lost \cup {drive.lba}
    /\ UNCHANGED <<driver, media, shadow, asked, confused>>

-----------------------------------------------------------------------------
DriverStep == Issue \/ PollReady \/ PollAgain \/ AttemptFails \/ MoveIn \/ MoveOut

AtaNext ==
    \/ Identify
    \/ AtaInit
    \/ IdentifyFails
    \/ \E op \in {"read", "write"}, lba \in Lbas, count \in Counts : Call(op, lba, count)
    \/ CallRefused
    \/ Issue
    \/ PollReady
    \/ PollAgain
    \/ AttemptFails
    \/ MoveIn
    \/ MoveOut
    \/ DriveAnswers
    \/ DriveStores
    \/ DriveStoreFails

AtaSpec == PowerOn /\ [][AtaNext]_ataVars

(* The processor executes the driver; the drive may stay silent for ever.  *)
FairAtaSpec == AtaSpec /\ WF_ataVars(DriverStep)

-----------------------------------------------------------------------------
(* Properties.                                                             *)

(* The variables keep their types, and a call its bounds.                  *)
AtaTypeOK ==
    /\ default_dev \in {None, "ata0"} /\ functions \in BOOLEAN
    /\ drive \in [st : {"idle", "busy", "drq", "storing", "err"}, lba : Lbas,
                  op : {None, "read", "write"}, data : Value]
    /\ media \in [Lbas -> Value] /\ shadow \in [Lbas -> Value]
    /\ apc \in {"boot", "identified", "off", "done", "issue", "wait", "move"}
    /\ call.c \in 0 .. call.count
    /\ call.attempt \in 0 .. Attempts - 1 /\ call.polls \in 0 .. MaxPolls
    /\ asked \subseteq Lbas /\ lost \subseteq Lbas

(* A read copies to the caller the sectors it was asked for, in order, as  *)
(* many as it returns, whatever attempts failed or timed out on the way    *)
(* and although the drive may still be storing an earlier write.  It holds *)
(* as long as no call began while the drive was working on the command of  *)
(* a call that had given up.  The addresses count modulo 2^28: ata.c tests *)
(* the first one alone, so a read past the last sector goes on with sector *)
(* 0 and reports success.                                                  *)
ReadsTheSectors ==
    call.op = "read" /\ ~confused =>
      /\ Len(buf) = call.c
      /\ \A i \in 1 .. call.c : buf[i] = media[Address(call.lba, i - 1)]

(* A sector that a write reported as done holds that data once the drive   *)
(* is through with it, and no other sector changes.  The driver does not   *)
(* look at the status after the data: a sector the drive then fails to     *)
(* store is one of the lost ones.  As for a read the addresses count       *)
(* modulo 2^28, and a write past the last sector overwrites sector 0.      *)
WritesTheSectors ==
    /\ AtaTypeOK
    /\ ~confused =>
         \A l \in Lbas \ lost :
           media[l] = shadow[l] \/ (drive.st = "storing" /\ drive.lba = l)

(* Only sectors that some ata_write28 named ever change, also when a late  *)
(* answer to an abandoned command is taken for that of another call, when  *)
(* a store fails, and whatever reads come between: data meant for one call *)
(* may then reach the sector of another one, never a sector no write       *)
(* named.  Named are the sectors counted modulo 2^28.                      *)
OnlyAskedSectorsChange == \A l \in Lbas : media[l] # <<0, l>> => l \in asked

(* ata_read28 and ata_write28 return, even if the drive never answers.     *)
AtaCallsReturn == (apc = "issue") ~> (apc = "done")
=============================================================================
