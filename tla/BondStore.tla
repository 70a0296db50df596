------------------------------ MODULE BondStore ------------------------------
(***************************************************************************)
(* The flash-backed bond store of the BLE host                             *)
(* (src/esp/common/bt/ble_store_flash.c).                                  *)
(*                                                                         *)
(* The store is one RAM image of records.  Every write and delete changes  *)
(* the image and then commits it whole: one sector is erased and written   *)
(* again.  Power may be lost at any point, the ROM's flash calls may fail, *)
(* and the next boot loads what the sector holds if its magic and CRC are  *)
(* right and starts empty if not.  The callbacks run in the host task, one *)
(* at a time.                                                              *)
(***************************************************************************)
EXTENDS Integers

CONSTANTS
  Peers, Handles, Vals,
  MaxSec,     \* ASP3_BLE_STORE_MAX_SEC
  MaxCccd,    \* ASP3_BLE_STORE_MAX_CCCD
  MaxCalls,   \* bound: number of write and delete calls
  NoHandle, NoRec, Junk, Gone, Unknown

ASSUME SizesAssumption == MaxSec \in Nat \ {0} /\ MaxCccd \in Nat \ {0} /\ MaxCalls \in Nat
ASSUME ValuesAssumption ==
  /\ NoHandle \notin Handles
  /\ NoRec # Junk /\ Gone # Unknown /\ {Gone, Unknown} \cap Vals = {}

\* sec[] is followed by cccd[] in the image; the CRC comes last.
SecSlots  == 1..(2 * MaxSec)
CccdSlots == (2 * MaxSec + 1)..(2 * MaxSec + MaxCccd)
Slots     == 1..(2 * MaxSec + MaxCccd)

\* A security record is known by its peer, a CCCD by its peer and handle.
Keys    == [peer : Peers, handle : Handles \cup {NoHandle}]
Records == [key : Keys, val : Vals]
IsSec(k)    == k.handle = NoHandle
SlotsFor(k) == IF IsSec(k) THEN SecSlots ELSE CccdSlots

ASSUME RecordsAssumption == {NoRec, Junk} \cap Records = {}

VARIABLES
  image,      \* store_image, its records in slot order
  loaded,     \* store_loaded
  cfg_done,   \* store_flash_cfg_done
  flash,      \* the sector
  pc,         \* "idle", or how far store_commit has come
  newest,     \* history: the last value written with each key since the boot
  ours,       \* history: the last value written as OUR_SEC of each peer
  good,       \* history: the image last handed to the flash write
  acked,      \* history: the last commit was reported as made
  calls       \* history: number of write and delete calls

hvars == <<newest, ours, good, acked>>
vars  == <<image, loaded, cfg_done, flash, pc, hvars, calls>>

Blank  == [i \in Slots |-> NoRec]
Erased == [slots |-> [i \in Slots |-> Junk], magic |-> FALSE, crc |-> FALSE]
HalfErased == [Erased EXCEPT !.magic = TRUE]
Whole  == [slots |-> image, magic |-> TRUE, crc |-> TRUE]

\* The words up to slot n were programmed.
Torn(n) == [slots |-> [i \in Slots |-> IF i <= n THEN image[i] ELSE Junk],
            magic |-> TRUE, crc |-> FALSE]

TypeOK ==
  /\ image \in [Slots -> Records \cup {NoRec}]
  /\ loaded \in BOOLEAN /\ cfg_done \in BOOLEAN /\ acked \in BOOLEAN
  /\ flash \in [slots : [Slots -> Records \cup {NoRec, Junk}],
                 magic : BOOLEAN, crc : BOOLEAN]
  /\ pc \in {"idle", "commit", "write"}
  /\ newest \in [Keys -> Vals \cup {Gone, Unknown}]
  /\ ours \in [Peers -> Vals \cup {Gone, Unknown}]
  /\ good \in [Slots -> Records \cup {NoRec}]
  /\ calls \in 0..MaxCalls

Init ==
  /\ image = Blank /\ loaded = FALSE /\ cfg_done = FALSE
  /\ flash = Erased /\ pc = "idle"
  /\ newest = [k \in Keys |-> Unknown] /\ ours = [p \in Peers |-> Unknown]
  /\ good = Blank /\ acked = FALSE
  /\ calls = 0

-----------------------------------------------------------------------------
(* store_load, at the first use after a boot.                              *)

\* Mutant: the CRC is not looked at.
RestoreByMagic ==
  /\ ~loaded
  /\ loaded' = TRUE /\ cfg_done' = TRUE
  /\ image' = IF flash.magic THEN flash.slots ELSE Blank
  /\ UNCHANGED <<flash, pc, hvars, calls>>

Restore ==
  /\ ~loaded
  /\ loaded' = TRUE /\ cfg_done' = TRUE
  /\ image' = IF flash.magic /\ flash.crc THEN flash.slots ELSE Blank
  /\ UNCHANGED <<flash, pc, hvars, calls>>

\* config_param or the read fails: the store starts empty and goes on.
LoadFails ==
  /\ ~loaded
  /\ loaded' = TRUE
  /\ cfg_done' \in BOOLEAN
  /\ image' = Blank
  /\ UNCHANGED <<flash, pc, hvars, calls>>

-----------------------------------------------------------------------------
(* store_write and store_delete change the image and commit it.  A call    *)
(* that finds no room (BLE_HS_ESTORE_CAP) or no record (BLE_HS_ENOENT)     *)
(* changes nothing.                                                        *)

Holding(img, k) == {i \in SlotsFor(k) : img[i] \in Records /\ img[i].key = k}
Free(k)         == {i \in SlotsFor(k) : image[i] = NoRec}
First(i, S)     == i \in S /\ \A j \in S : i <= j

StartCommit ==
  /\ pc = "idle" /\ loaded /\ calls < MaxCalls
  /\ calls' = calls + 1
  /\ pc' = "commit"
  /\ acked' = FALSE
  /\ UNCHANGED <<loaded, cfg_done, flash, good>>

\* k is written; the record kind is told by our for a security record.
Wrote(k, v, our) ==
  /\ newest' = [newest EXCEPT ![k] = v]
  /\ ours' = IF our THEN [ours EXCEPT ![k.peer] = v] ELSE ours

\* Mutants of the search for the slot: a free slot is taken as soon as it is
\* met; a record that is there is not overwritten.
PutAtFirst(k, v) ==
  \E i \in SlotsFor(k) :
    /\ First(i, Holding(image, k) \cup Free(k))
    /\ image' = [image EXCEPT ![i] = [key |-> k, val |-> v]]

PutIfAbsent(k, v) ==
  \E i \in SlotsFor(k) :
    \/ First(i, Holding(image, k)) /\ image' = image
    \/ /\ Holding(image, k) = {} /\ First(i, Free(k))
       /\ image' = [image EXCEPT ![i] = [key |-> k, val |-> v]]

\* The record with this key is overwritten, or the first free slot is used.
Put(k, v) ==
  \E i \in SlotsFor(k) :
    /\ \/ First(i, Holding(image, k))
       \/ Holding(image, k) = {} /\ First(i, Free(k))
    /\ image' = [image EXCEPT ![i] = [key |-> k, val |-> v]]

Write ==
  /\ StartCommit
  /\ \E k \in Keys, v \in Vals, our \in BOOLEAN :
       /\ our => IsSec(k)
       /\ Put(k, v)
       /\ Wrote(k, v, our)

\* All records of the peer go, CCCDs of other handles too: what is left of
\* those is not claimed.
Delete ==
  /\ StartCommit
  /\ \E k \in Keys :
       LET hit == {i \in SlotsFor(k) : image[i] \in Records /\ image[i].key.peer = k.peer} IN
       /\ hit # {}
       /\ image' = [i \in Slots |-> IF i \in hit THEN NoRec ELSE image[i]]
       /\ newest' = [l \in Keys |->
            IF l = k THEN Gone
            ELSE IF l.peer = k.peer /\ ~IsSec(l) /\ ~IsSec(k) THEN Unknown
            ELSE newest[l]]
       /\ ours' = IF IsSec(k) THEN [ours EXCEPT ![k.peer] = Gone] ELSE ours

-----------------------------------------------------------------------------
(* store_commit                                                            *)

CommitConfigFails ==
  /\ pc = "commit" /\ ~cfg_done
  /\ pc' = "idle"
  /\ UNCHANGED <<image, loaded, cfg_done, flash, hvars, calls>>

Erase ==
  /\ pc = "commit"
  /\ cfg_done' = TRUE
  /\ flash' = Erased
  /\ pc' = "write"
  /\ UNCHANGED <<image, loaded, hvars, calls>>

EraseFails ==
  /\ pc = "commit"
  /\ cfg_done' = TRUE
  /\ flash' \in {flash, HalfErased, Erased}
  /\ pc' = "idle"
  /\ UNCHANGED <<image, loaded, hvars, calls>>

\* Mutant: the CRC is not computed again for the changed image.
WriteFlashOldCrc ==
  /\ pc = "write"
  /\ flash' = [Whole EXCEPT !.crc = FALSE]
  /\ good' = image /\ acked' = TRUE
  /\ pc' = "idle"
  /\ UNCHANGED <<image, loaded, cfg_done, newest, ours, calls>>

WriteFlash ==
  /\ pc = "write"
  /\ flash' = Whole
  /\ good' = image /\ acked' = TRUE
  /\ pc' = "idle"
  /\ UNCHANGED <<image, loaded, cfg_done, newest, ours, calls>>

WriteFails ==
  /\ pc = "write"
  /\ \E n \in Slots : flash' = Torn(n)
  /\ good' = image
  /\ pc' = "idle"
  /\ UNCHANGED <<image, loaded, cfg_done, newest, ours, acked, calls>>

\* Power is lost; an erase or a write under way may be half done or done.
PowerLoss ==
  /\ loaded
  /\ loaded' = FALSE /\ cfg_done' = FALSE /\ image' = Blank /\ pc' = "idle"
  /\ newest' = [k \in Keys |-> Unknown] /\ ours' = [p \in Peers |-> Unknown]
  /\ \/ pc = "idle" /\ UNCHANGED <<flash, good>>
     \/ /\ pc = "commit"
        /\ flash' \in {flash, HalfErased, Erased}
        /\ UNCHANGED good
     \/ /\ pc = "write"
        /\ flash' \in {Erased, Whole} \cup {Torn(n) : n \in Slots}
        /\ good' = image
  /\ UNCHANGED <<acked, calls>>

Next ==
  \/ Restore \/ LoadFails \/ Write \/ Delete
  \/ CommitConfigFails \/ Erase \/ EraseFails \/ WriteFlash \/ WriteFails
  \/ PowerLoss

Spec == Init /\ [][Next]_vars

-----------------------------------------------------------------------------
(* Properties.                                                             *)

\* store_read with a key: the first record that has it.
ReadFrom(img, k) ==
  LET held == Holding(img, k)
  IN IF held = {} THEN Gone ELSE img[CHOOSE i \in held : First(i, held)].val
Read(k) == ReadFrom(image, k)

\* However writes and deletes leave holes in the arrays, no key is stored
\* twice: store_read and store_delete would disagree about it.
OnePerKey == \A k \in Keys : \A i, j \in Holding(image, k) : i = j

\* What the next boot will be able to read of a key.
DiskRead(k) ==
  IF flash.magic /\ flash.crc THEN ReadFrom(flash.slots, k) ELSE Gone

\* The records deleted with one: the CCCDs of a peer go together.
Kin(k) == {l \in Keys : l.peer = k.peer /\ IsSec(l) = IsSec(k)}

\* The arrays of records with their holes, the commits and the sector are a map that is
\* saved whole: of all slots only the one for each key counts, a call changes no other
\* key but those it deletes along, and wherever power is lost or a flash call fails a
\* boot finds the map last saved, the one being saved, or nothing.
DurableStore == INSTANCE DurableMap WITH
                  mem <- [k \in Keys |-> Read(k)], disk <- [k \in Keys |-> DiskRead(k)],
                  up <- loaded, done <- acked, None <- Gone,
                  Groups <- {Kin(k) : k \in Keys}
IsDurableMap == DurableStore!Spec

\* A read returns what was last written with the key or that it was deleted,
\* whether or not the commits of those calls succeeded.
ReadsSeeNewest ==
  loaded => \A k \in Keys : newest[k] # Unknown => Read(k) = newest[k]

\* A boot that can read the sector finds every record as the last call that
\* was reported as done left it.
AckedSurvives == [][Restore /\ acked => image' = good]_vars

\* A boot never comes up with part of an image: it finds one that a commit
\* wrote whole, or nothing (ble_store_flash.c:152, :206).
AtomicRestore == [][~loaded /\ loaded' => image' \in {Blank, good}]_vars

\* Wherever power is lost and whichever flash call fails, a boot finds a whole image, and
\* the one of the last call reported as done if there was no other since.
BootFindsSaved == AckedSurvives /\ AtomicRestore

\* ble_store_flash.c:89: sec[] holds the OUR_SEC and the PEER_SEC record of a
\* peer, so OUR_SEC reads back what was written as OUR_SEC.  See the README.
OurSecReadsBack ==
  loaded => \A p \in Peers :
    ours[p] # Unknown => Read([peer |-> p, handle |-> NoHandle]) = ours[p]
=============================================================================
