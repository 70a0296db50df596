--------------------------- MODULE BondStoreProofs ---------------------------
(***************************************************************************)
(* What holds of the bond store for every number of peers, handles, values *)
(* and slots, wherever power is lost and whichever flash calls fail.       *)
(***************************************************************************)
EXTENDS BondStore, TLAPS

\* A sector whose CRC is right holds the image last handed to the flash write,
\* and it does so from a commit's success to the start of the next one.
FlashWhole == /\ flash.crc => flash.magic /\ flash.slots = good
              /\ acked => flash.crc

Busy == pc # "idle" => loaded /\ ~acked

Distinct(img) == \A k \in Keys : \A i, j \in Holding(img, k) : i = j

IInv == TypeOK /\ FlashWhole /\ Busy /\ Distinct(image) /\ Distinct(good)

Images == [Slots -> Records \cup {NoRec}]

LEMMA SlotsOfKey == \A k \in Keys : SlotsFor(k) \subseteq Slots
BY SizesAssumption, SMT DEF SlotsFor, SecSlots, CccdSlots, Slots

LEMMA BlankImage == Blank \in Images /\ Distinct(Blank)
<1>1. Blank \in Images
  BY DEF Blank, Images
<1>2. \A k \in Keys : Holding(Blank, k) = {}
  <2>1. \A i \in Slots : Blank[i] \notin Records
    BY RecordsAssumption DEF Blank
  <2>2. QED  BY <2>1, SlotsOfKey DEF Holding
<1>3. QED  BY <1>1, <1>2 DEF Distinct

\* Overwriting the one record of a key, or filling a slot for a key that has
\* none, keeps keys apart.
LEMMA PutKeepsDistinct ==
  ASSUME IInv, NEW k \in Keys, NEW v \in Vals, Put(k, v)
  PROVE  image' \in Images /\ Distinct(image')
<1> DEFINE r == [key |-> k, val |-> v]
<1>1. PICK i \in SlotsFor(k) :
        /\ i \in Holding(image, k) \/ Holding(image, k) = {}
        /\ image' = [image EXCEPT ![i] = r]
  BY DEF Put, First
<1>2. i \in Slots /\ image \in Images /\ r \in Records /\ r.key = k
  BY <1>1, SlotsOfKey DEF IInv, TypeOK, Images, Records
<1> HIDE DEF r
<1>3. image' \in Images /\ image'[i] = r /\ \A a \in Slots \ {i} : image'[a] = image[a]
  BY <1>1, <1>2 DEF Images
<1>4. ASSUME NEW l \in Keys, NEW a \in Holding(image', l), NEW b \in Holding(image', l)
      PROVE  a = b
  <2>1. a \in SlotsFor(l) /\ b \in SlotsFor(l) /\ a \in Slots /\ b \in Slots
    BY SlotsOfKey DEF Holding
  <2>2. a # i => a \in Holding(image, l)
    BY <1>3, <2>1 DEF Holding
  <2>3. b # i => b \in Holding(image, l)
    BY <1>3, <2>1 DEF Holding
  <2>4. a = i \/ b = i => l = k
    BY <1>2, <1>3 DEF Holding
  <2>5. \A c, d \in Holding(image, l) : c = d
    BY DEF IInv, Distinct
  <2>6. QED  BY <1>1, <2>2, <2>3, <2>4, <2>5
<1>5. QED  BY <1>3, <1>4 DEF Distinct

\* Taking records out keeps keys apart.
LEMMA ClearKeepsDistinct ==
  ASSUME IInv, NEW hit, image' = [i \in Slots |-> IF i \in hit THEN NoRec ELSE image[i]]
  PROVE  image' \in Images /\ Distinct(image')
<1>1. image \in Images
  BY DEF IInv, TypeOK, Images
<1>2. image' \in Images
  BY <1>1 DEF Images
<1>3. ASSUME NEW k \in Keys PROVE Holding(image', k) \subseteq Holding(image, k)
  <2>1. ASSUME NEW i \in Slots, image'[i] \in Records PROVE image'[i] = image[i]
    BY <2>1, RecordsAssumption
  <2>2. QED  BY <2>1, SlotsOfKey DEF Holding
<1>4. QED  BY <1>2, <1>3 DEF IInv, Distinct

\* What a half-done flash operation leaves has no right CRC.
LEMMA FlashImages ==
  ASSUME IInv
  PROVE  /\ Erased \in [slots : [Slots -> Records \cup {NoRec, Junk}],
                        magic : BOOLEAN, crc : BOOLEAN]
         /\ HalfErased \in [slots : [Slots -> Records \cup {NoRec, Junk}],
                            magic : BOOLEAN, crc : BOOLEAN]
         /\ Whole \in [slots : [Slots -> Records \cup {NoRec, Junk}],
                       magic : BOOLEAN, crc : BOOLEAN]
         /\ \A n \in Slots : Torn(n) \in [slots : [Slots -> Records \cup {NoRec, Junk}],
                                          magic : BOOLEAN, crc : BOOLEAN]
         /\ ~Erased.crc /\ ~HalfErased.crc /\ (\A n \in Slots : ~Torn(n).crc)
         /\ Whole.magic /\ Whole.crc /\ Whole.slots = image
<1> USE DEF IInv, TypeOK
<1>1. [i \in Slots |-> Junk] \in [Slots -> Records \cup {NoRec, Junk}]
  OBVIOUS
<1>2. image \in [Slots -> Records \cup {NoRec, Junk}]
  OBVIOUS
<1>3. ASSUME NEW n \in Slots
      PROVE  [i \in Slots |-> IF i <= n THEN image[i] ELSE Junk]
               \in [Slots -> Records \cup {NoRec, Junk}]
  OBVIOUS
<1>4. QED  BY <1>1, <1>2, <1>3 DEF Erased, HalfErased, Whole, Torn

-----------------------------------------------------------------------------
LEMMA InitInv == Init => IInv
<1> SUFFICES ASSUME Init PROVE IInv
  OBVIOUS
<1>1. Blank \in Images /\ Distinct(Blank)
  BY BlankImage
<1>2. Erased \in [slots : [Slots -> Records \cup {NoRec, Junk}],
                  magic : BOOLEAN, crc : BOOLEAN] /\ ~Erased.crc
  BY DEF Erased
<1>3. TypeOK
  <2>1. 0 \in 0..MaxCalls
    BY SizesAssumption
  <2>2. /\ newest \in [Keys -> Vals \cup {Gone, Unknown}]
        /\ ours \in [Peers -> Vals \cup {Gone, Unknown}]
    BY DEF Init
  <2>3. /\ image \in [Slots -> Records \cup {NoRec}] /\ good \in [Slots -> Records \cup {NoRec}]
        /\ flash \in [slots : [Slots -> Records \cup {NoRec, Junk}],
                      magic : BOOLEAN, crc : BOOLEAN]
    BY <1>1, <1>2 DEF Init, Images
  <2>4. /\ loaded \in BOOLEAN /\ cfg_done \in BOOLEAN /\ acked \in BOOLEAN
        /\ pc \in {"idle", "commit", "write"} /\ calls \in 0..MaxCalls
    BY <2>1 DEF Init
  <2>5. QED  BY <2>2, <2>3, <2>4 DEF TypeOK
<1>4. QED  BY <1>1, <1>2, <1>3 DEF Init, IInv, FlashWhole, Busy

LEMMA LoadInv ==
  ASSUME IInv, Restore \/ LoadFails
  PROVE  IInv'
<1> USE DEF IInv, TypeOK
<1>1. /\ ~loaded /\ loaded' = TRUE /\ cfg_done' \in BOOLEAN
      /\ UNCHANGED <<flash, pc, newest, ours, good, acked, calls>>
  BY DEF Restore, LoadFails, hvars
<1>2. image' = Blank \/ image' = good
  BY DEF Restore, LoadFails, FlashWhole
<1>3. image' \in Images /\ Distinct(image')
  BY <1>2, BlankImage DEF Images
<1>4. TypeOK'
  BY <1>1, <1>3 DEF Images
<1>5. FlashWhole' /\ Busy' /\ Distinct(good')
  BY <1>1 DEF FlashWhole, Busy
<1>6. QED  BY <1>3, <1>4, <1>5 DEF Distinct, Holding

LEMMA CallInv ==
  ASSUME IInv, Write \/ Delete
  PROVE  IInv'
<1> USE DEF IInv, TypeOK
<1>1. /\ loaded /\ calls' = calls + 1 /\ calls < MaxCalls
      /\ pc' = "commit" /\ acked' = FALSE
      /\ UNCHANGED <<loaded, cfg_done, flash, good>>
  BY DEF Write, Delete, StartCommit
<1>2. calls' \in 0..MaxCalls
  BY <1>1, SizesAssumption
<1>3. /\ image' \in Images /\ Distinct(image')
      /\ newest' \in [Keys -> Vals \cup {Gone, Unknown}]
      /\ ours' \in [Peers -> Vals \cup {Gone, Unknown}]
  <2>1. CASE Write
    <3>1. PICK k \in Keys, v \in Vals, our \in BOOLEAN : Put(k, v) /\ Wrote(k, v, our)
      BY <2>1 DEF Write
    <3>2. k.peer \in Peers
      BY DEF Keys
    <3>3. QED  BY <3>1, <3>2, PutKeepsDistinct DEF Wrote
  <2>2. CASE Delete
    <3>1. PICK k \in Keys :
            /\ \E hit : image' = [i \in Slots |-> IF i \in hit THEN NoRec ELSE image[i]]
            /\ newest' = [l \in Keys |->
                 IF l = k THEN Gone
                 ELSE IF l.peer = k.peer /\ ~IsSec(l) /\ ~IsSec(k) THEN Unknown
                 ELSE newest[l]]
            /\ ours' = IF IsSec(k) THEN [ours EXCEPT ![k.peer] = Gone] ELSE ours
      BY <2>2 DEF Delete
    <3>2. k.peer \in Peers
      BY DEF Keys
    <3>3. QED  BY <3>1, <3>2, ClearKeepsDistinct
  <2>3. QED  BY <2>1, <2>2
<1>4. TypeOK'
  BY <1>1, <1>2, <1>3 DEF Images
<1>5. FlashWhole' /\ Busy' /\ Distinct(good')
  BY <1>1 DEF FlashWhole, Busy
<1>6. QED  BY <1>3, <1>4, <1>5 DEF Distinct, Holding

LEMMA CommitInv ==
  ASSUME IInv, CommitConfigFails \/ Erase \/ EraseFails \/ WriteFlash \/ WriteFails
  PROVE  IInv'
<1> USE DEF IInv, TypeOK
<1>1. /\ pc # "idle" /\ pc' \in {"idle", "write"} /\ cfg_done' \in BOOLEAN
      /\ UNCHANGED <<image, loaded, newest, ours, calls>>
  BY DEF CommitConfigFails, Erase, EraseFails, WriteFlash, WriteFails, hvars
<1>2. loaded /\ ~acked
  BY <1>1 DEF Busy
<1>3. CASE CommitConfigFails \/ Erase \/ EraseFails
  <2>1. flash' \in {flash, HalfErased, Erased} /\ UNCHANGED <<good, acked>>
    BY <1>3 DEF CommitConfigFails, Erase, EraseFails, hvars
  <2>2. TypeOK' /\ FlashWhole' /\ Busy'
    BY <1>1, <1>2, <2>1, FlashImages DEF FlashWhole, Busy
  <2>3. QED  BY <1>1, <2>1, <2>2 DEF Distinct, Holding
<1>4. CASE WriteFlash
  <2>1. flash' = Whole /\ good' = image /\ acked' = TRUE /\ pc' = "idle"
    BY <1>4 DEF WriteFlash
  <2>2. TypeOK' /\ FlashWhole' /\ Busy'
    BY <1>1, <1>2, <2>1, FlashImages DEF FlashWhole, Busy
  <2>3. QED  BY <1>1, <2>1, <2>2 DEF Distinct, Holding
<1>5. CASE WriteFails
  <2>1. /\ (\E n \in Slots : flash' = Torn(n)) /\ good' = image /\ acked' = acked
        /\ pc' = "idle"
    BY <1>5 DEF WriteFails
  <2>2. TypeOK' /\ FlashWhole' /\ Busy'
    BY <1>1, <1>2, <2>1, FlashImages DEF FlashWhole, Busy
  <2>3. QED  BY <1>1, <2>1, <2>2 DEF Distinct, Holding
<1>6. QED  BY <1>3, <1>4, <1>5

LEMMA PowerLossInv ==
  ASSUME IInv, PowerLoss
  PROVE  IInv'
<1> USE DEF IInv, TypeOK
<1>1. /\ loaded' = FALSE /\ cfg_done' = FALSE /\ image' = Blank /\ pc' = "idle"
      /\ newest' = [k \in Keys |-> Unknown] /\ ours' = [p \in Peers |-> Unknown]
      /\ UNCHANGED <<acked, calls>>
  BY DEF PowerLoss
<1>2. \/ UNCHANGED <<flash, good>>
      \/ ~acked /\ flash' \in {flash, HalfErased, Erased} /\ good' = good
      \/ /\ ~acked /\ good' = image
         /\ flash' \in {Erased, Whole} \cup {Torn(n) : n \in Slots}
  BY DEF PowerLoss, Busy
<1>3. TypeOK'
  <2>1. /\ image' \in [Slots -> Records \cup {NoRec}] /\ good' \in [Slots -> Records \cup {NoRec}]
    BY <1>1, <1>2, BlankImage DEF Images
  <2>2. /\ newest' \in [Keys -> Vals \cup {Gone, Unknown}]
        /\ ours' \in [Peers -> Vals \cup {Gone, Unknown}]
    BY <1>1
  <2>3. flash' \in [slots : [Slots -> Records \cup {NoRec, Junk}],
                    magic : BOOLEAN, crc : BOOLEAN]
    BY <1>2, FlashImages
  <2>4. /\ loaded' \in BOOLEAN /\ cfg_done' \in BOOLEAN /\ acked' \in BOOLEAN
        /\ pc' \in {"idle", "commit", "write"} /\ calls' \in 0..MaxCalls
    BY <1>1
  <2>5. QED  BY <2>1, <2>2, <2>3, <2>4
<1>4. FlashWhole' /\ Busy'
  BY <1>1, <1>2, FlashImages DEF FlashWhole, Busy
<1>5. Distinct(image') /\ Distinct(good')
  BY <1>1, <1>2, BlankImage
<1>6. QED  BY <1>3, <1>4, <1>5 DEF Distinct, Holding

LEMMA NextInv == IInv /\ [Next]_vars => IInv'
<1> SUFFICES ASSUME IInv, [Next]_vars PROVE IInv'
  OBVIOUS
<1>1. CASE UNCHANGED vars
  BY <1>1 DEF vars, hvars, IInv, TypeOK, FlashWhole, Busy, Distinct, Holding
<1>2. CASE Next
  BY <1>2, LoadInv, CallInv, CommitInv, PowerLossInv DEF Next
<1>3. QED  BY <1>1, <1>2

LEMMA InvHolds == Spec => []IInv
BY InitInv, NextInv, PTL DEF Spec

-----------------------------------------------------------------------------
\* Type correctness: no boot, call or lost power puts anything but records and
\* free slots into the RAM image, whatever the sector holds.
THEOREM TypeCorrect == Spec => []TypeOK
<1>1. IInv => TypeOK
  BY DEF IInv
<1>2. QED  BY <1>1, InvHolds, PTL

\* No key is ever stored twice, however many peers come and go and whatever is
\* loaded after a reset (ble_store_flash.c:334-352, :355-374).
THEOREM KeysStayApart == Spec => []OnePerKey
<1>1. IInv => OnePerKey
  BY DEF IInv, OnePerKey, Distinct
<1>2. QED  BY <1>1, InvHolds, PTL

\* Every record is found again after a reset as the last successful call left
\* it, if the boot can read the sector.
THEOREM AckedIsDurable == Spec => AckedSurvives
<1>1. IInv => (Restore /\ acked => image' = good)
  BY DEF IInv, FlashWhole, Restore
<1>2. QED  BY <1>1, InvHolds, PTL DEF AckedSurvives

\* After a reset the store is an image some commit wrote whole, or empty.
THEOREM BootIsAtomic == Spec => AtomicRestore
<1>1. IInv /\ [Next]_vars => (~loaded /\ loaded' => image' \in {Blank, good})
  <2> SUFFICES ASSUME IInv, [Next]_vars, ~loaded, loaded' PROVE image' \in {Blank, good}
    OBVIOUS
  <2>1. ~Write /\ ~Delete
    BY DEF Write, Delete, StartCommit
  <2>2. Restore \/ LoadFails
    BY <2>1 DEF Next, CommitConfigFails, Erase, EraseFails, WriteFlash, WriteFails,
               PowerLoss, vars
  <2>3. QED  BY <2>2 DEF Restore, LoadFails, IInv, FlashWhole
<1>2. QED  BY <1>1, InvHolds, PTL DEF Spec, AtomicRestore
-----------------------------------------------------------------------------
\* Where keys are kept apart, a read finds the record of the key.
LEMMA ReadFinds ==
  ASSUME NEW img, NEW k \in Keys, Distinct(img), NEW i \in Holding(img, k)
  PROVE  ReadFrom(img, k) = img[i].val
<1>1. \A j \in Holding(img, k) : j = i
  BY DEF Distinct
<1>2. i \in SlotsFor(k) /\ i <= i
  BY SlotsOfKey DEF Holding, Slots
<1>3. First(i, Holding(img, k))
  BY <1>1, <1>2 DEF First
<1>4. (CHOOSE j \in Holding(img, k) : First(j, Holding(img, k))) = i
  BY <1>1, <1>3
<1>5. QED  BY <1>4 DEF ReadFrom

\* A boot finds what was saved, whole and as last reported, for any slots and calls.
THEOREM BootsFindSaved == Spec => BootFindsSaved
  BY AckedIsDurable, BootIsAtomic DEF BootFindsSaved

-----------------------------------------------------------------------------
(* What a read returns.  The history variable newest says what the host was *)
(* last told of a key; the image must hold exactly that.                    *)

\* A value the host wrote is in a slot of the key, and nothing is left of a
\* key it deleted.
ImageIsNewest ==
  \A k \in Keys :
    /\ newest[k] \in Vals => \E i \in Holding(image, k) : image[i].val = newest[k]
    /\ newest[k] = Gone => Holding(image, k) = {}

\* Before the boot has loaded anything, nothing is claimed.
NothingClaimed == ~loaded => \A k \in Keys : newest[k] = Unknown

RInv == IInv /\ ImageIsNewest /\ NothingClaimed

\* A put leaves the record in a slot of its key and touches no other key's.
LEMMA PutTouchesOne ==
  ASSUME IInv, NEW k \in Keys, NEW v \in Vals, Put(k, v)
  PROVE  /\ \E i \in Holding(image', k) : image'[i].val = v
         /\ \A l \in Keys \ {k} :
              /\ Holding(image', l) = Holding(image, l)
              /\ \A a \in Holding(image, l) : image'[a] = image[a]
<1> DEFINE r == [key |-> k, val |-> v]
<1>1. PICK i \in SlotsFor(k) :
        /\ i \in Holding(image, k) \/ i \in Free(k)
        /\ image' = [image EXCEPT ![i] = r]
  BY DEF Put, First
<1>2. i \in Slots /\ image \in Images /\ r \in Records /\ r.key = k /\ r.val = v
  BY <1>1, SlotsOfKey DEF IInv, TypeOK, Images, Records
<1> HIDE DEF r
<1>3. image'[i] = r /\ \A a \in Slots \ {i} : image'[a] = image[a]
  BY <1>1, <1>2 DEF Images
<1>4. image[i] = NoRec \/ image[i].key = k
  BY <1>1 DEF Holding, Free
<1>5. ASSUME NEW l \in Keys, l # k
      PROVE  /\ Holding(image', l) = Holding(image, l)
             /\ \A a \in Holding(image, l) : image'[a] = image[a]
  <2>1. i \notin Holding(image, l) /\ i \notin Holding(image', l)
    BY <1>2, <1>3, <1>4, <1>5, RecordsAssumption DEF Holding
  <2>2. ASSUME NEW a \in SlotsFor(l), a # i PROVE image'[a] = image[a]
    BY <1>3, <2>2, SlotsOfKey
  <2>3. Holding(image', l) = Holding(image, l)
    BY <2>1, <2>2 DEF Holding
  <2>4. QED  BY <2>1, <2>2, <2>3 DEF Holding
<1>6. i \in Holding(image', k) /\ image'[i].val = v
  BY <1>1, <1>2, <1>3 DEF Holding
<1>7. QED  BY <1>5, <1>6

\* The key that is written has the value; what is claimed of the others stays there.
LEMMA PutTellsNewest ==
  ASSUME RInv, NEW k \in Keys, NEW v \in Vals, NEW our \in BOOLEAN,
         Put(k, v), Wrote(k, v, our)
  PROVE  ImageIsNewest'
<1>1. /\ \E i \in Holding(image', k) : image'[i].val = v
      /\ \A l \in Keys \ {k} :
           /\ Holding(image', l) = Holding(image, l)
           /\ \A a \in Holding(image, l) : image'[a] = image[a]
  BY PutTouchesOne DEF RInv
<1>2. newest' = [newest EXCEPT ![k] = v] /\ newest \in [Keys -> Vals \cup {Gone, Unknown}]
  BY DEF Wrote, RInv, IInv, TypeOK
<1>3. ASSUME NEW l \in Keys
      PROVE  /\ newest'[l] \in Vals => \E a \in Holding(image', l) : image'[a].val = newest'[l]
             /\ newest'[l] = Gone => Holding(image', l) = {}
  <2>1. CASE l = k
    BY <1>1, <1>2, <2>1, ValuesAssumption
  <2>2. CASE l # k
    <3>1. newest'[l] = newest[l]
      BY <1>2, <2>2
    <3>2. QED  BY <1>1, <2>2, <3>1 DEF RInv, ImageIsNewest
  <2>3. QED  BY <2>1, <2>2
<1>4. QED  BY <1>3 DEF ImageIsNewest, Holding

\* A deletion takes the records of its key and the ones that go along, and no others.
LEMMA DeleteTakesKin ==
  ASSUME NEW k \in Keys,
         image' = [i \in Slots |->
           IF i \in {j \in SlotsFor(k) : image[j] \in Records /\ image[j].key.peer = k.peer}
           THEN NoRec ELSE image[i]]
  PROVE  \A l \in Keys :
           IF l \in Kin(k) THEN Holding(image', l) = {}
           ELSE /\ Holding(image', l) = Holding(image, l)
                /\ \A a \in Holding(image, l) : image'[a] = image[a]
<1>1. ASSUME NEW l \in Keys, NEW a \in Slots
      PROVE  a \in Holding(image', l) <=>
               /\ a \in Holding(image, l)
               /\ ~(a \in SlotsFor(k) /\ l.peer = k.peer)
  <2>1. CASE a \in SlotsFor(k) /\ image[a] \in Records /\ image[a].key.peer = k.peer
    BY <2>1, RecordsAssumption DEF Holding
  <2>2. CASE ~(a \in SlotsFor(k) /\ image[a] \in Records /\ image[a].key.peer = k.peer)
    BY <2>2 DEF Holding
  <2>3. QED  BY <2>1, <2>2
<1>2. ASSUME NEW l \in Keys, l \in Kin(k) PROVE Holding(image', l) = {}
  <2>1. l.peer = k.peer /\ SlotsFor(l) = SlotsFor(k)
    BY <1>2 DEF Kin, SlotsFor
  <2>2. Holding(image', l) \subseteq Slots \cap SlotsFor(k)
    BY <2>1, SlotsOfKey DEF Holding
  <2>3. QED  BY <1>1, <2>1, <2>2
<1>3. ASSUME NEW l \in Keys, l \notin Kin(k)
      PROVE  /\ Holding(image', l) = Holding(image, l)
             /\ \A a \in Holding(image, l) : image'[a] = image[a]
  <2>1. l.peer = k.peer => IsSec(l) # IsSec(k)
    BY <1>3 DEF Kin
  <2>2. l.peer = k.peer => SlotsFor(l) \cap SlotsFor(k) = {}
    <3>1. SecSlots \cap CccdSlots = {}
      BY SizesAssumption, SMT DEF SecSlots, CccdSlots
    <3>2. IsSec(l) \in BOOLEAN /\ IsSec(k) \in BOOLEAN
      BY DEF IsSec
    <3>3. QED  BY <2>1, <3>1, <3>2 DEF SlotsFor
  <2>3. ASSUME NEW a \in Holding(image, l)
        PROVE  a \in SlotsFor(l) /\ a \in Slots /\ image[a].key = l
               /\ ~(a \in SlotsFor(k) /\ l.peer = k.peer)
    BY <2>2, SlotsOfKey DEF Holding
  <2>4. Holding(image', l) = Holding(image, l)
    <3>1. Holding(image', l) \subseteq Slots /\ Holding(image, l) \subseteq Slots
      BY SlotsOfKey DEF Holding
    <3>2. QED  BY <1>1, <2>3, <3>1
  <2>5. ASSUME NEW a \in Holding(image, l) PROVE image'[a] = image[a]
    BY <2>3
  <2>6. QED  BY <2>4, <2>5
<1>4. QED  BY <1>2, <1>3

\* A deletion leaves nothing of its key and touches no other key that is still
\* claimed: of the peer's other CCCDs nothing is claimed any more.
LEMMA DeleteTellsNewest ==
  ASSUME RInv, Delete
  PROVE  ImageIsNewest'
<1>1. PICK k \in Keys :
        /\ image' = [i \in Slots |->
             IF i \in {j \in SlotsFor(k) : image[j] \in Records /\ image[j].key.peer = k.peer}
             THEN NoRec ELSE image[i]]
        /\ newest' = [l \in Keys |->
             IF l = k THEN Gone
             ELSE IF l.peer = k.peer /\ ~IsSec(l) /\ ~IsSec(k) THEN Unknown
             ELSE newest[l]]
  BY DEF Delete
<1>2. \A l \in Keys :
        IF l \in Kin(k) THEN Holding(image', l) = {}
        ELSE /\ Holding(image', l) = Holding(image, l)
             /\ \A a \in Holding(image, l) : image'[a] = image[a]
  BY <1>1, DeleteTakesKin
<1>3. ASSUME NEW l \in Keys, l # k, ~(l.peer = k.peer /\ ~IsSec(l) /\ ~IsSec(k))
      PROVE  /\ Holding(image', l) = Holding(image, l)
             /\ \A a \in Holding(image, l) : image'[a] = image[a]
  <2>1. l \notin Kin(k)
    <3>1. l = [peer |-> l.peer, handle |-> l.handle] /\ k = [peer |-> k.peer, handle |-> k.handle]
      BY DEF Keys
    <3>2. QED  BY <1>3, <3>1 DEF Kin, IsSec
  <2>2. QED  BY <1>2, <2>1
<1>4. ASSUME NEW l \in Keys
      PROVE  /\ newest'[l] \in Vals => \E a \in Holding(image', l) : image'[a].val = newest'[l]
             /\ newest'[l] = Gone => Holding(image', l) = {}
  <2>1. CASE l = k
    <3>1. newest'[l] = Gone
      BY <1>1, <2>1
    <3>2. Holding(image', l) = {}
      BY <1>2, <2>1 DEF Kin
    <3>3. QED  BY <3>1, <3>2, ValuesAssumption
  <2>2. CASE l # k /\ l.peer = k.peer /\ ~IsSec(l) /\ ~IsSec(k)
    <3>1. newest'[l] = Unknown
      BY <1>1, <2>2
    <3>2. QED  BY <3>1, ValuesAssumption
  <2>3. CASE l # k /\ ~(l.peer = k.peer /\ ~IsSec(l) /\ ~IsSec(k))
    <3>1. newest'[l] = newest[l]
      BY <1>1, <2>3
    <3>2. QED  BY <1>3, <2>3, <3>1 DEF RInv, ImageIsNewest
  <2>4. QED  BY <2>1, <2>2, <2>3
<1>5. QED  BY <1>4 DEF ImageIsNewest, Holding

LEMMA UnclaimedImage ==
  ASSUME \A k \in Keys : newest[k] = Unknown
  PROVE  ImageIsNewest /\ NothingClaimed
BY ValuesAssumption DEF ImageIsNewest, NothingClaimed

LEMMA InitNewest == Init => RInv
<1> SUFFICES ASSUME Init PROVE RInv
  OBVIOUS
<1>1. \A k \in Keys : newest[k] = Unknown
  BY DEF Init
<1>2. QED  BY <1>1, InitInv, UnclaimedImage DEF RInv

LEMMA StepNewest == RInv /\ [Next]_vars => ImageIsNewest' /\ NothingClaimed'
<1> SUFFICES ASSUME RInv, [Next]_vars PROVE ImageIsNewest' /\ NothingClaimed'
  OBVIOUS
<1>1. CASE Write \/ Delete
  <2>1. loaded /\ loaded' = loaded
    BY <1>1 DEF Write, Delete, StartCommit
  <2>2. ImageIsNewest'
    BY <1>1, PutTellsNewest, DeleteTellsNewest DEF Write
  <2>3. QED  BY <2>1, <2>2 DEF NothingClaimed
<1>2. CASE \/ CommitConfigFails \/ Erase \/ EraseFails \/ WriteFlash \/ WriteFails
           \/ UNCHANGED vars
  <2>1. UNCHANGED <<image, loaded, newest>>
    BY <1>2 DEF CommitConfigFails, Erase, EraseFails, WriteFlash, WriteFails, vars, hvars
  <2>2. QED  BY <2>1 DEF RInv, ImageIsNewest, NothingClaimed, Holding
<1>3. CASE Restore \/ LoadFails \/ PowerLoss
  <2>1. \A k \in Keys : newest'[k] = Unknown
    BY <1>3 DEF Restore, LoadFails, PowerLoss, hvars, RInv, NothingClaimed
  <2>2. QED  BY <2>1, ValuesAssumption DEF ImageIsNewest, NothingClaimed
<1>4. QED  BY <1>1, <1>2, <1>3 DEF Next

LEMMA NewestHolds == Spec => []RInv
<1>1. RInv /\ [Next]_vars => RInv'
  BY NextInv, StepNewest DEF RInv
<1>2. QED  BY <1>1, InitNewest, PTL DEF Spec

\* store_read hands back what the host last wrote with the key, and finds
\* nothing of a key that was deleted, whether or not the commits succeeded
\* (ble_store_flash.c:262-322, :324-380).
THEOREM ReadsAreCurrent == Spec => []ReadsSeeNewest
<1>1. RInv => ReadsSeeNewest
  <2> SUFFICES ASSUME RInv, NEW k \in Keys, newest[k] # Unknown PROVE Read(k) = newest[k]
    BY DEF ReadsSeeNewest
  <2>1. newest[k] \in Vals \/ newest[k] = Gone
    BY DEF RInv, IInv, TypeOK
  <2>2. CASE newest[k] = Gone
    BY <2>2 DEF RInv, ImageIsNewest, Read, ReadFrom
  <2>3. CASE newest[k] \in Vals
    <3>1. PICK i \in Holding(image, k) : image[i].val = newest[k]
      BY <2>3 DEF RInv, ImageIsNewest
    <3>2. QED  BY <3>1, ReadFinds DEF Read, RInv, IInv
  <2>4. QED  BY <2>1, <2>2, <2>3
<1>2. QED  BY <1>1, NewestHolds, PTL

-----------------------------------------------------------------------------
(* The store as a map that is saved whole.                                  *)

Stored == [k \in Keys |-> Read(k)]
OnDisk == [k \in Keys |-> DiskRead(k)]
NoBonds == [k \in Keys |-> Gone]

\* An image with the same records of a key reads the same.
LEMMA ReadsSame ==
  ASSUME NEW img, NEW jmg, NEW k \in Keys, Distinct(img), Distinct(jmg),
         Holding(jmg, k) = Holding(img, k), \A a \in Holding(img, k) : jmg[a] = img[a]
  PROVE  ReadFrom(jmg, k) = ReadFrom(img, k)
<1>1. CASE Holding(img, k) = {}
  BY <1>1 DEF ReadFrom
<1>2. ASSUME NEW a \in Holding(img, k) PROVE ReadFrom(jmg, k) = ReadFrom(img, k)
  BY <1>2, ReadFinds
<1>3. QED  BY <1>1, <1>2

LEMMA BlankReads == \A k \in Keys : ReadFrom(Blank, k) = Gone
<1>1. \A i \in Slots : Blank[i] \notin Records
  BY RecordsAssumption DEF Blank
<1>2. \A k \in Keys : Holding(Blank, k) = {}
  BY <1>1, SlotsOfKey DEF Holding
<1>3. QED  BY <1>2 DEF ReadFrom

\* A sector that is not whole has nothing to read, a whole one its image.
LEMMA DiskReads ==
  ASSUME IInv
  PROVE  /\ ~flash.crc => OnDisk = NoBonds
         /\ flash.crc => OnDisk = [k \in Keys |-> ReadFrom(flash.slots, k)]
BY DEF OnDisk, NoBonds, DiskRead, IInv, FlashWhole

\* What a step of a commit makes of the sector.
LEMMA FlashReads ==
  ASSUME IInv
  PROVE  /\ flash' \in {HalfErased, Erased} \cup {Torn(n) : n \in Slots} => OnDisk' = NoBonds
         /\ flash' = Whole => OnDisk' = Stored
         /\ flash' = flash => OnDisk' = OnDisk
<1>1. ~Erased.crc /\ ~HalfErased.crc /\ (\A n \in Slots : ~Torn(n).crc)
      /\ Whole.magic /\ Whole.crc /\ Whole.slots = image
  BY FlashImages
<1>2. QED  BY <1>1 DEF OnDisk, NoBonds, DiskRead, Stored, Read

LEMMA PutIsPut ==
  ASSUME IInv, IInv', NEW k \in Keys, NEW v \in Vals, Put(k, v)
  PROVE  Stored' = [Stored EXCEPT ![k] = v]
<1>1. Distinct(image) /\ Distinct(image')
  BY DEF IInv, Distinct, Holding
<1>2. Read(k)' = v
  BY <1>1, PutTouchesOne, ReadFinds DEF Read
<1>3. ASSUME NEW l \in Keys, l # k PROVE Read(l)' = Read(l)
  BY <1>1, <1>3, PutTouchesOne, ReadsSame DEF Read
<1>4. QED  BY <1>2, <1>3 DEF Stored

LEMMA DeleteIsRemove ==
  ASSUME IInv, IInv', Delete
  PROVE  \E k \in Keys : Stored' = [l \in Keys |-> IF l \in Kin(k) THEN Gone ELSE Stored[l]]
<1>1. Distinct(image) /\ Distinct(image')
  BY DEF IInv, Distinct, Holding
<1>2. PICK k \in Keys :
        image' = [i \in Slots |->
          IF i \in {j \in SlotsFor(k) : image[j] \in Records /\ image[j].key.peer = k.peer}
          THEN NoRec ELSE image[i]]
  BY DEF Delete
<1>3. \A l \in Keys :
        IF l \in Kin(k) THEN Holding(image', l) = {}
        ELSE /\ Holding(image', l) = Holding(image, l)
             /\ \A a \in Holding(image, l) : image'[a] = image[a]
  BY <1>2, DeleteTakesKin
<1>4. ASSUME NEW l \in Keys, l \in Kin(k) PROVE Read(l)' = Gone
  BY <1>3, <1>4 DEF Read, ReadFrom
<1>5. ASSUME NEW l \in Keys, l \notin Kin(k) PROVE Read(l)' = Read(l)
  BY <1>1, <1>3, <1>5, ReadsSame DEF Read
<1>6. QED  BY <1>4, <1>5 DEF Stored

\* Every step is a step of the map or changes nothing of it.
LEMMA StepIsMapped ==
  ASSUME IInv, IInv', [Next]_vars
  PROVE  [DurableStore!Next]_(DurableStore!dmvars)
<1> USE DEF Stored, OnDisk, NoBonds
<1>1. CASE Restore \/ LoadFails
  <2>1. /\ ~loaded /\ loaded' = TRUE /\ acked' = acked /\ flash' = flash
        /\ image' = Blank \/ (flash.crc /\ image' = flash.slots)
    BY <1>1 DEF Restore, LoadFails, hvars
  <2>2. Stored' \in {OnDisk, NoBonds}
    BY <2>1, DiskReads, BlankReads DEF Read
  <2>3. OnDisk' = OnDisk
    BY <2>1, FlashReads
  <2>4. DurableStore!Boot
    BY <2>1, <2>2, <2>3 DEF DurableStore!Boot, DurableStore!Empty
  <2>5. QED  BY <2>4 DEF DurableStore!Next
<1>2. CASE Write
  <2>1. PICK k \in Keys, v \in Vals : Put(k, v)
    BY <1>2 DEF Write
  <2>2. loaded /\ loaded' = loaded /\ acked' = FALSE /\ flash' = flash
    BY <1>2 DEF Write, StartCommit
  <2>3. Stored' = [Stored EXCEPT ![k] = v] /\ OnDisk' = OnDisk
    BY <2>1, <2>2, PutIsPut, FlashReads
  <2>4. Stored'[k] = v
    BY <2>3
  <2> HIDE DEF Stored
  <2>5. DurableStore!Put(k)
    BY <2>2, <2>3, <2>4 DEF DurableStore!Put, Stored
  <2>6. QED  BY <2>5 DEF DurableStore!Next
<1>3. CASE Delete
  <2>1. PICK k \in Keys : Stored' = [l \in Keys |-> IF l \in Kin(k) THEN Gone ELSE Stored[l]]
    BY <1>3, DeleteIsRemove
  <2>2. loaded /\ loaded' = loaded /\ acked' = FALSE /\ flash' = flash
    BY <1>3 DEF Delete, StartCommit
  <2>3. OnDisk' = OnDisk
    BY <2>2, FlashReads
  <2>4. DurableStore!Remove(Kin(k))
    BY <2>1, <2>2, <2>3 DEF DurableStore!Remove
  <2>5. QED  BY <2>4 DEF DurableStore!Next
<1>4. CASE CommitConfigFails \/ Erase \/ EraseFails \/ WriteFails
  <2>1. /\ loaded /\ ~acked
        /\ image' = image /\ loaded' = loaded /\ acked' = acked
        /\ flash' \in {flash, HalfErased, Erased} \cup {Torn(n) : n \in Slots}
    BY <1>4 DEF CommitConfigFails, Erase, EraseFails, WriteFails, hvars, IInv, Busy
  <2>2. Stored' = Stored
    BY <2>1 DEF Read, ReadFrom, Holding
  <2>3. OnDisk' = OnDisk \/ OnDisk' = NoBonds
    BY <2>1, FlashReads
  <2>4. CASE OnDisk' = OnDisk
    BY <2>1, <2>2, <2>4 DEF DurableStore!dmvars
  <2>5. CASE OnDisk' = NoBonds
    <3>1. DurableStore!Wipe
      BY <2>1, <2>2, <2>5 DEF DurableStore!Wipe, DurableStore!Empty
    <3>2. QED  BY <3>1 DEF DurableStore!Next
  <2>6. QED  BY <2>3, <2>4, <2>5
<1>5. CASE WriteFlash
  <2>1. /\ loaded /\ ~acked
        /\ image' = image /\ loaded' = loaded /\ acked' = TRUE /\ flash' = Whole
    BY <1>5 DEF WriteFlash, IInv, Busy
  <2>2. Stored' = Stored /\ OnDisk' = Stored
    <3>1. Stored' = Stored
      BY <2>1 DEF Read, ReadFrom, Holding
    <3>2. OnDisk' = Stored
      BY <2>1, FlashReads
    <3>3. QED  BY <3>1, <3>2
  <2>3. DurableStore!Save
    BY <2>1, <2>2 DEF DurableStore!Save
  <2>4. QED  BY <2>3 DEF DurableStore!Next
<1>6. CASE PowerLoss
  <2>1. /\ loaded /\ loaded' = FALSE /\ image' = Blank /\ acked' = acked
        /\ \/ flash' = flash
           \/ ~acked /\ flash' \in {HalfErased, Erased, Whole} \cup {Torn(n) : n \in Slots}
    BY <1>6 DEF PowerLoss, IInv, Busy
  <2>2. Stored' = NoBonds
    BY <2>1, BlankReads DEF Read
  <2>3. OnDisk' = OnDisk \/ (~acked /\ OnDisk' \in {Stored, NoBonds})
    BY <2>1, FlashReads
  <2>4. DurableStore!PowerLoss
    BY <2>1, <2>2, <2>3 DEF DurableStore!PowerLoss, DurableStore!Empty
  <2>5. QED  BY <2>4 DEF DurableStore!Next
<1>7. CASE UNCHANGED vars
  <2>1. UNCHANGED <<image, loaded, flash, acked>>
    BY <1>7 DEF vars, hvars
  <2>2. Stored' = Stored /\ OnDisk' = OnDisk
    BY <2>1, FlashReads DEF Read, ReadFrom, Holding
  <2>3. QED  BY <2>1, <2>2 DEF DurableStore!dmvars
<1>8. QED  BY <1>1, <1>2, <1>3, <1>4, <1>5, <1>6, <1>7 DEF Next

\* The arrays of records, their commits and the sector are a map saved whole: no call
\* changes another key than its own and those deleted along, and wherever power is lost or
\* a flash call fails a boot finds the map last saved, the one being saved, or nothing; the
\* one last reported as saved, if no call came after it (ble_store_flash.c:168-423).
THEOREM StoreIsDurableMap == Spec => IsDurableMap
<1>1. Init => DurableStore!Init
  <2> SUFFICES ASSUME Init PROVE DurableStore!Init
    OBVIOUS
  <2>1. ~Erased.crc /\ flash = Erased /\ image = Blank
    BY DEF Init, Erased
  <2>2. Stored = NoBonds /\ OnDisk = NoBonds
    BY <2>1, BlankReads DEF Stored, OnDisk, NoBonds, Read, DiskRead
  <2>3. QED  BY <2>2 DEF Init, DurableStore!Init, DurableStore!Empty, Stored, OnDisk, NoBonds
<1>2. IInv /\ IInv' /\ [Next]_vars => [DurableStore!Next]_(DurableStore!dmvars)
  BY StepIsMapped
<1>3. QED  BY <1>1, <1>2, InvHolds, PTL DEF Spec, IsDurableMap, DurableStore!Spec
=============================================================================
