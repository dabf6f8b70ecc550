------------------------- MODULE BitmapHandleProofs -------------------------
(***************************************************************************)
(* Proofs about BitmapHandle, for any number of handles, bitmaps, fonts    *)
(* and pages, and any number of draws in a frame.                          *)
(***************************************************************************)
EXTENDS BitmapHandle, WellFoundedInduction, TLAPS

(***************************************************************************)
(* The types of what TypeOK leaves open, and of the record Now that the    *)
(* draw functions pass along.                                              *)
(***************************************************************************)
Someone == Shown \cup {Nobody}
Places  == Addresses \cup {Invalid}

States ==
  [Info : [Handles -> Someone], Address : [Handles -> Places],
   GpuHandle : [Handles -> Someone \X {0, 1}],
   Use : [Handles -> 0 .. 2], Resized : [Handles -> BOOLEAN], Page : [Handles -> Pages]]

Engines == [Handles -> [of : Someone, source : Someone \X Places \X Pages, scaled : BOOLEAN]]
Draws   == [handle : Handles, of : Shown, pair : BOOLEAN, right : BOOLEAN]

Records ==
  [st : States, bh : [Shown -> 0 .. HandleNb], eng : Engines, ok : BOOLEAN,
   where : [Bitmaps -> Places], seq : [Bitmaps -> {0, 1}], drawn : SUBSET Draws]

(***************************************************************************)
(* The inductive invariant.  What Esd_HandleState records of a handle is   *)
(* what the engine's handle is set up for; nothing is recorded for the     *)
(* scratch handle.                                                         *)
(***************************************************************************)
Matches(st, eng) ==
  /\ st.Info[Scratch] = Nobody /\ st.Page[Scratch] = 0
  /\ \A h \in Handles \ {Scratch} : st.Info[h] # Nobody =>
       /\ eng[h].of = st.Info[h]
       /\ eng[h].source = <<st.Info[h],
                            IF st.Info[h] \in Bitmaps THEN st.Address[h] ELSE Invalid,
                            st.Page[h]>>
       /\ st.Info[h] \in RomFonts => st.Page[h] = 0 /\ ~eng[h].scaled
       /\ eng[h].scaled => st.Resized[h]

(* The handles drawn through are those of what was drawn, and in use.      *)
Taken(st, draws) ==
  \A d \in draws : d.handle # Scratch => st.Info[d.handle] = d.of /\ st.Use[d.handle] = 2

Right(draws) == \A d \in draws : d.right \/ (d.pair /\ d.handle = Scratch)

Good(s) ==
  /\ s \in Records
  /\ Matches(s.st, s.eng) /\ Taken(s.st, s.drawn)
  /\ s.ok => Right(s.drawn)

Typed == TypeOK /\ list \in Engines /\ engine \in Engines /\ drawn \in SUBSET Draws

Sound ==
  /\ phase = "shown" => Matches(handleState, engine)
  /\ phase \in {"update", "render"} => Matches(handleState, list)
  /\ phase \in {"shown", "update"} => drawn = {}
  /\ Taken(handleState, drawn)
  /\ phase # "crashed" => Right(drawn)

(***************************************************************************)
(* What the operators of the module change of the record.                  *)
(***************************************************************************)
LEMMA Minimum ==
  ASSUME NEW T \in SUBSET Nat, T # {}
  PROVE  Min(T) \in T
<1> DEFINE R == {ss \in Nat \X Nat : ss[1] < ss[2]}
<1>1. IsWellFoundedOn(R, Nat)
  BY NatLessThanWellFounded DEF OpToRel
<1>2. \E x \in T : \A y \in T : ~(<<y, x>> \in R)
  <2> HIDE DEF R
  <2>. QED
    BY <1>1, WFMin
<1>3. PICK x \in T : \A y \in T : ~(<<y, x>> \in R)
  BY <1>2
<1>4. ASSUME NEW y \in T
      PROVE  x <= y
  <2>1. ~(y < x)
    BY <1>3
  <2>. QED
    BY <2>1
<1>. QED
  BY <1>4 DEF Min

(* What holds of every handle, bitmap and record.                          *)
LEMMA Basics ==
  /\ Scratch \in Handles /\ Handles \subseteq Nat /\ HandleNb \notin Handles
  /\ Invalid \in Places /\ 0 \in Pages /\ Nobody \notin Shown
  /\ \A h \in Handles : h \in 0 .. HandleNb
BY HandleAssumption DEF Handles, Places, Shown

LEMMA AddressTyped ==
  ASSUME NEW s \in Records, NEW r \in Shown
  PROVE  /\ AddressOf(s, r) \in Places
         /\ GpuHandleOf(s, r) \in Someone \X {0, 1}
         /\ SetFor(r, AddressOf(s, r)) \in
              [of : Someone, source : Someone \X Places \X Pages, scaled : BOOLEAN]
<1>1. s.where \in [Bitmaps -> Places] /\ s.seq \in [Bitmaps -> {0, 1}]
  BY DEF Records
<1>2. AddressOf(s, r) \in Places /\ GpuHandleOf(s, r) \in Someone \X {0, 1}
  BY <1>1, Basics DEF AddressOf, GpuHandleOf, Shown, Someone
<1>. QED
  BY <1>2, Basics DEF SetFor, Someone

(* HandleFor gives a handle that is not in use, or the scratch handle.     *)
LEMMA HandleGiven ==
  ASSUME NEW s \in Records, NEW r \in Shown
  PROVE  /\ HandleFor(s, r) \in Handles
         /\ HandleFor(s, r) # Scratch => s.st.Use[HandleFor(s, r)] = 0
<1> DEFINE unused == {h \in Handles \ {Scratch} : s.st.Use[h] = 0}
<1>1. unused \in SUBSET Nat
  BY Basics
<1>2. unused # {} => Min(unused) \in unused
  BY <1>1, Minimum
<1>3. HandleFor(s, r) = CASE r \in RomFonts \cap unused -> r
                          [] unused = {}                -> Scratch
                          [] OTHER                      -> Min(unused)
  BY DEF HandleFor
<1> HIDE DEF unused
<1>4. HandleFor(s, r) \in unused \cup {Scratch}
  BY <1>2, <1>3
<1>. QED
  BY <1>4, Basics DEF unused

(* A record stays one when a part of it is replaced.                       *)
LEMMA RecordWith ==
  ASSUME NEW s \in Records
  PROVE  /\ \A x \in States : [s EXCEPT !.st = x] \in Records
         /\ \A x \in Engines : [s EXCEPT !.eng = x] \in Records
         /\ \A x \in [Shown -> 0 .. HandleNb] : [s EXCEPT !.bh = x] \in Records
         /\ \A x \in SUBSET Draws : [s EXCEPT !.drawn = x] \in Records
         /\ [s EXCEPT !.ok = FALSE] \in Records
BY DEF Records

LEMMA StateWith ==
  ASSUME NEW s \in States
  PROVE  /\ \A x \in [Handles -> 0 .. 2] : [s EXCEPT !.Use = x] \in States
         /\ \A x \in [Handles -> BOOLEAN] : [s EXCEPT !.Resized = x] \in States
         /\ \A x \in [Handles -> Pages] : [s EXCEPT !.Page = x] \in States
BY DEF States

LEMMA RecordParts ==
  ASSUME NEW s \in Records
  PROVE  /\ s.st \in States /\ s.eng \in Engines /\ s.bh \in [Shown -> 0 .. HandleNb]
         /\ s.drawn \in SUBSET Draws /\ s.ok \in BOOLEAN
         /\ s.st.Info \in [Handles -> Someone] /\ s.st.Address \in [Handles -> Places]
         /\ s.st.GpuHandle \in [Handles -> Someone \X {0, 1}]
         /\ s.st.Use \in [Handles -> 0 .. 2] /\ s.st.Resized \in [Handles -> BOOLEAN]
         /\ s.st.Page \in [Handles -> Pages]
BY DEF Records, States

Attached(s, h, r, t) ==
  /\ t \in Records
  /\ t.bh = s.bh /\ t.eng = s.eng /\ t.ok = s.ok /\ t.where = s.where
  /\ t.seq = s.seq /\ t.drawn = s.drawn
  /\ t.st.Use = s.st.Use /\ t.st.Resized = s.st.Resized /\ t.st.Page = s.st.Page
  /\ h = Scratch => t = s
  /\ h # Scratch =>
       /\ t.st.Info = [s.st.Info EXCEPT ![h] = r]
       /\ t.st.GpuHandle = [s.st.GpuHandle EXCEPT ![h] = GpuHandleOf(s, r)]
       /\ t.st.Address = [s.st.Address EXCEPT
                            ![h] = IF r \in Bitmaps THEN AddressOf(s, r) ELSE @]

LEMMA AttachFields ==
  ASSUME NEW s \in Records, NEW h \in Handles, NEW r \in Shown
  PROVE  Attached(s, h, r, Attach(s, h, r))
<1> DEFINE t == Attach(s, h, r)
<1>1. CASE h = Scratch
  BY <1>1 DEF Attached, Attach
<1>2. CASE h # Scratch
  <2>1. t \in Records
    <3> DEFINE info == [s.st.Info EXCEPT ![h] = r]
               gpu  == [s.st.GpuHandle EXCEPT ![h] = GpuHandleOf(s, r)]
               adr  == [s.st.Address EXCEPT
                          ![h] = IF r \in Bitmaps THEN AddressOf(s, r) ELSE @]
               st   == [s.st EXCEPT !.Info = info, !.GpuHandle = gpu, !.Address = adr]
    <3>1. s.st \in States
      BY DEF Records
    <3>2. /\ info \in [Handles -> Someone] /\ gpu \in [Handles -> Someone \X {0, 1}]
          /\ adr \in [Handles -> Places]
      <4>1. r \in Someone
        BY DEF Someone
      <4>2. /\ s.st.Info \in [Handles -> Someone] /\ s.st.Address \in [Handles -> Places]
            /\ s.st.GpuHandle \in [Handles -> Someone \X {0, 1}]
        BY ONLY <3>1 DEF States
      <4>3. AddressOf(s, r) \in Places /\ GpuHandleOf(s, r) \in Someone \X {0, 1}
        BY AddressTyped
      <4>. QED
        BY ONLY <4>1, <4>2, <4>3
    <3>3. t = [s EXCEPT !.st = st]
      BY <1>2 DEF Attach, Records, States
    <3> HIDE DEF info, gpu, adr, t
    <3>4. st \in States
      BY ONLY <3>1, <3>2 DEF States
    <3>. QED
      BY ONLY s \in Records, <3>3, <3>4 DEF Records
  <2>2. /\ t.bh = s.bh /\ t.eng = s.eng /\ t.ok = s.ok /\ t.where = s.where
        /\ t.seq = s.seq /\ t.drawn = s.drawn
    BY <1>2 DEF Attach, Records
  <2>3. /\ t.st.Use = s.st.Use /\ t.st.Resized = s.st.Resized /\ t.st.Page = s.st.Page
        /\ t.st.Info = [s.st.Info EXCEPT ![h] = r]
        /\ t.st.GpuHandle = [s.st.GpuHandle EXCEPT ![h] = GpuHandleOf(s, r)]
        /\ t.st.Address = [s.st.Address EXCEPT
                             ![h] = IF r \in Bitmaps THEN AddressOf(s, r) ELSE @]
    BY <1>2 DEF Attach, Records, States
  <2>. QED
    BY ONLY <1>2, <2>1, <2>2, <2>3 DEF Attached
<1>. QED
  BY ONLY <1>1, <1>2

IsSetUp(s, h, r, t) ==
  /\ t \in Records
  /\ t.bh = [s.bh EXCEPT ![r] = h]
  /\ t.eng = [s.eng EXCEPT ![h] = SetFor(r, AddressOf(s, r))]
  /\ t.ok = s.ok /\ t.where = s.where /\ t.seq = s.seq /\ t.drawn = s.drawn
  /\ t.st.Use = s.st.Use
  /\ t.st.Resized = [s.st.Resized EXCEPT ![h] = FALSE]
  /\ t.st.Page = [s.st.Page EXCEPT ![h] = 0]
  /\ h = Scratch => /\ t.st.Info = s.st.Info /\ t.st.Address = s.st.Address
                    /\ t.st.GpuHandle = s.st.GpuHandle
  /\ h # Scratch =>
       /\ t.st.Info = [s.st.Info EXCEPT ![h] = r]
       /\ t.st.GpuHandle = [s.st.GpuHandle EXCEPT ![h] = GpuHandleOf(s, r)]
       /\ t.st.Address = [s.st.Address EXCEPT
                            ![h] = IF r \in Bitmaps THEN AddressOf(s, r) ELSE @]

LEMMA SetUpFields ==
  ASSUME NEW s \in Records, NEW h \in Handles, NEW r \in Shown
  PROVE  IsSetUp(s, h, r, SetUp(s, h, r))
<1> DEFINE a == Attach(s, h, r)
           t == SetUp(s, h, r)
           bh2  == [a.bh EXCEPT ![r] = h]
           eng2 == [a.eng EXCEPT ![h] = SetFor(r, AddressOf(s, r))]
           res2 == [a.st.Resized EXCEPT ![h] = FALSE]
           pg2  == [a.st.Page EXCEPT ![h] = 0]
           st2  == [a.st EXCEPT !.Resized = res2]
           st3  == [st2 EXCEPT !.Page = pg2]
           t1   == [a EXCEPT !.bh = bh2]
           t2   == [t1 EXCEPT !.eng = eng2]
           t3   == [t2 EXCEPT !.st = st3]
<1>0. Attached(s, h, r, a)
  BY AttachFields
<1>1. a \in Records
  BY <1>0 DEF Attached
<1>2. t = [a EXCEPT !.bh[r] = h, !.eng[h] = SetFor(r, AddressOf(s, r)),
                    !.st.Resized[h] = FALSE, !.st.Page[h] = 0]
  BY DEF SetUp
<1>3. /\ SetFor(r, AddressOf(s, r)) \in
             [of : Someone, source : Someone \X Places \X Pages, scaled : BOOLEAN]
      /\ h \in 0 .. HandleNb /\ 0 \in Pages
  BY AddressTyped, Basics
<1> HIDE DEF a
<1>4. bh2 \in [Shown -> 0 .. HandleNb] /\ eng2 \in Engines
      /\ res2 \in [Handles -> BOOLEAN] /\ pg2 \in [Handles -> Pages]
  BY <1>1, <1>3, RecordParts DEF Engines
<1>5. t = t3
  BY <1>1, <1>2 DEF Records, States
<1> HIDE DEF t, bh2, eng2, res2, pg2
<1>6. st2 \in States /\ st3 \in States
  BY <1>1, <1>4, RecordParts, StateWith
<1> HIDE DEF st3
<1>7. t1 \in Records /\ t2 \in Records /\ t3 \in Records
  <2>1. t1 \in Records
    BY <1>1, <1>4, RecordWith
  <2>2. t2 \in Records
    <3> HIDE DEF t1
    <3>. QED
      BY <2>1, <1>4, RecordWith
  <2> HIDE DEF t2
  <2>. QED
    BY <2>1, <2>2, <1>6, RecordWith
<1>8. /\ t3.bh = bh2 /\ t3.eng = eng2 /\ t3.st = st3
      /\ t3.ok = a.ok /\ t3.where = a.where /\ t3.seq = a.seq /\ t3.drawn = a.drawn
  BY <1>1 DEF Records
<1>9. /\ st3.Use = a.st.Use /\ st3.Info = a.st.Info /\ st3.GpuHandle = a.st.GpuHandle
      /\ st3.Address = a.st.Address /\ st3.Resized = res2 /\ st3.Page = pg2
  BY <1>1 DEF Records, States, st3
<1> HIDE DEF t3
<1>10. IsSetUp(s, h, r, t)
  BY <1>0, <1>5, <1>7, <1>8, <1>9 DEF IsSetUp, Attached, bh2, eng2, res2, pg2
<1>. QED
  BY <1>10 DEF t

Marked(s, r, t) ==
  /\ t \in Records
  /\ t.bh = s.bh /\ t.eng = s.eng /\ t.ok = s.ok /\ t.where = s.where
  /\ t.seq = s.seq /\ t.drawn = s.drawn
  /\ t.st.Info = s.st.Info /\ t.st.Address = s.st.Address
  /\ t.st.GpuHandle = s.st.GpuHandle
  /\ t.st.Resized = s.st.Resized /\ t.st.Page = s.st.Page
  /\ t.st.Use = IF s.bh[r] = Scratch THEN s.st.Use
                                    ELSE [s.st.Use EXCEPT ![s.bh[r]] = 2]

LEMMA MarkUsedFields ==
  ASSUME NEW s \in Records, NEW r \in Shown, s.bh[r] \in Handles
  PROVE  Marked(s, r, MarkUsed(s, r))
<1> DEFINE use2 == [s.st.Use EXCEPT ![s.bh[r]] = 2]
           st2  == [s.st EXCEPT !.Use = use2]
<1>1. use2 \in [Handles -> 0 .. 2]
  BY RecordParts
<1>2. st2 \in States
  BY <1>1, RecordParts, StateWith
<1>3. MarkUsed(s, r) = IF s.bh[r] = Scratch THEN s ELSE [s EXCEPT !.st = st2]
  BY DEF MarkUsed
<1> HIDE DEF st2
<1>4. MarkUsed(s, r) \in Records
  BY <1>2, <1>3, RecordWith
<1> DEFINE t == MarkUsed(s, r)
<1>5. /\ t.bh = s.bh /\ t.eng = s.eng /\ t.ok = s.ok /\ t.where = s.where
      /\ t.seq = s.seq /\ t.drawn = s.drawn
  BY DEF MarkUsed, Records, States
<1>6. /\ t.st.Info = s.st.Info /\ t.st.Address = s.st.Address
      /\ t.st.GpuHandle = s.st.GpuHandle
      /\ t.st.Resized = s.st.Resized /\ t.st.Page = s.st.Page
  BY DEF MarkUsed, Records, States
<1>7. t.st.Use = IF s.bh[r] = Scratch THEN s.st.Use ELSE [s.st.Use EXCEPT ![s.bh[r]] = 2]
  BY DEF MarkUsed, Records, States
<1>8. t \in Records
  BY <1>4
<1> HIDE DEF t
<1>9. Marked(s, r, t)
  BY <1>5, <1>6, <1>7, <1>8 DEF Marked
<1>. QED
  BY <1>9 DEF t

Resized(s, h, scaled, t) ==
  /\ t \in Records
  /\ t.bh = s.bh /\ t.ok = s.ok /\ t.where = s.where
  /\ t.seq = s.seq /\ t.drawn = s.drawn
  /\ t.eng = [s.eng EXCEPT ![h].scaled = scaled]
  /\ t.st.Info = s.st.Info /\ t.st.Address = s.st.Address
  /\ t.st.GpuHandle = s.st.GpuHandle /\ t.st.Use = s.st.Use
  /\ t.st.Resized = [s.st.Resized EXCEPT ![h] = TRUE] /\ t.st.Page = s.st.Page

LEMMA ResizeFields ==
  ASSUME NEW s \in Records, NEW h \in Handles, NEW scaled \in BOOLEAN
  PROVE  Resized(s, h, scaled, Resize(s, h, scaled))
<1> DEFINE eng2 == [s.eng EXCEPT ![h].scaled = scaled]
           res2 == [s.st.Resized EXCEPT ![h] = TRUE]
           st2  == [s.st EXCEPT !.Resized = res2]
           t1   == [s EXCEPT !.eng = eng2]
           t2   == [t1 EXCEPT !.st = st2]
<1>1. eng2 \in Engines /\ res2 \in [Handles -> BOOLEAN]
  <2>1. s.eng \in Engines /\ s.st.Resized \in [Handles -> BOOLEAN]
    BY RecordParts
  <2>2. [s.eng[h] EXCEPT !.scaled = scaled] \in
          [of : Someone, source : Someone \X Places \X Pages, scaled : BOOLEAN]
    BY <2>1 DEF Engines
  <2>. QED
    BY <2>1, <2>2 DEF Engines
<1>2. st2 \in States
  BY <1>1, RecordParts, StateWith
<1>3. Resize(s, h, scaled) = t2
  BY DEF Resize, Records, States
<1>4. t1 \in Records
  BY <1>1, RecordWith
<1>5. t2 \in Records
  <2> HIDE DEF t1
  <2>. QED
    BY <1>2, <1>4, RecordWith
<1>6. Resize(s, h, scaled) \in Records
  BY <1>3, <1>5
<1> HIDE DEF eng2, res2, st2, t1, t2
<1>7. LET t == Resize(s, h, scaled)
      IN  /\ t.bh = s.bh /\ t.ok = s.ok /\ t.where = s.where
          /\ t.seq = s.seq /\ t.drawn = s.drawn
          /\ t.eng = [s.eng EXCEPT ![h].scaled = scaled]
  BY DEF Resize, Records, States
<1>8. LET t == Resize(s, h, scaled)
      IN  /\ t.st.Info = s.st.Info /\ t.st.Address = s.st.Address
          /\ t.st.GpuHandle = s.st.GpuHandle /\ t.st.Use = s.st.Use
          /\ t.st.Resized = [s.st.Resized EXCEPT ![h] = TRUE] /\ t.st.Page = s.st.Page
  BY DEF Resize, Records, States
<1>. QED
  BY <1>6, <1>7, <1>8 DEF Resized

(***************************************************************************)
(* A bitmap that is set up.                                                *)
(***************************************************************************)
(* Handle h is set up for r, which may be drawn through it.                *)
Ready(s, h, r) ==
  /\ h \in Handles
  /\ h # Scratch => /\ s.st.Info[h] = r /\ s.st.Use[h] = 2
                    /\ s.st.GpuHandle[h] = GpuHandleOf(s, r)
                    /\ r \in Bitmaps => s.st.Address[h] = AddressOf(s, r)

(* The scratch handle is set up for r, which holds until the next set-up.  *)
ScratchReady(s, r, scaled) ==
  s.eng[Scratch] = [of |-> r, source |-> <<r, AddressOf(s, r), 0>>, scaled |-> scaled]

Same(s, t) == t.ok = s.ok /\ t.where = s.where /\ t.seq = s.seq /\ t.drawn = s.drawn

LEMMA SameAddress ==
  ASSUME NEW s, NEW t, Same(s, t), NEW r
  PROVE  AddressOf(t, r) = AddressOf(s, r) /\ GpuHandleOf(t, r) = GpuHandleOf(s, r)
BY DEF Same, AddressOf, GpuHandleOf

BecomesSet(s, h, r, t) ==
  /\ Good(t) /\ Same(s, t) /\ t.bh = [s.bh EXCEPT ![r] = h]
  /\ h # Scratch => /\ t.st.Info[h] = r /\ t.st.GpuHandle[h] = GpuHandleOf(t, r)
                    /\ r \in Bitmaps => t.st.Address[h] = AddressOf(t, r)
  /\ h = Scratch => ScratchReady(t, r, FALSE) /\ ~t.st.Resized[Scratch]

LEMMA SetUpGood ==
  ASSUME NEW s, Good(s), NEW r \in Shown, NEW h \in Handles,
         h # Scratch => s.st.Use[h] = 0
  PROVE  BecomesSet(s, h, r, SetUp(s, h, r))
<1> DEFINE t == SetUp(s, h, r)
<1>1. s \in Records /\ Matches(s.st, s.eng) /\ Taken(s.st, s.drawn) /\ (s.ok => Right(s.drawn))
  BY DEF Good
<1>0. IsSetUp(s, h, r, t)
  BY <1>1, SetUpFields
<1>2. t \in Records /\ Same(s, t)
  BY <1>0 DEF IsSetUp, Same
<1>3. AddressOf(t, r) = AddressOf(s, r) /\ GpuHandleOf(t, r) = GpuHandleOf(s, r)
  BY <1>2, SameAddress
<1>4. /\ s.st.Info \in [Handles -> Someone] /\ s.st.Address \in [Handles -> Places]
      /\ s.st.GpuHandle \in [Handles -> Someone \X {0, 1}]
      /\ s.st.Use \in [Handles -> 0 .. 2] /\ s.st.Resized \in [Handles -> BOOLEAN]
      /\ s.st.Page \in [Handles -> Pages] /\ s.eng \in Engines
      /\ s.drawn \in SUBSET Draws
  BY <1>1 DEF Records, States
<1>5. /\ t.eng = [s.eng EXCEPT ![h] = SetFor(r, AddressOf(s, r))]
      /\ t.st.Use = s.st.Use
      /\ t.st.Resized = [s.st.Resized EXCEPT ![h] = FALSE]
      /\ t.st.Page = [s.st.Page EXCEPT ![h] = 0]
      /\ t.bh = [s.bh EXCEPT ![r] = h]
  BY <1>0 DEF IsSetUp
<1>6. h = Scratch => t.st.Info = s.st.Info /\ t.st.Address = s.st.Address
                     /\ t.st.GpuHandle = s.st.GpuHandle
  BY <1>0 DEF IsSetUp
<1>7. h # Scratch =>
        /\ t.st.Info = [s.st.Info EXCEPT ![h] = r]
        /\ t.st.GpuHandle = [s.st.GpuHandle EXCEPT ![h] = GpuHandleOf(s, r)]
        /\ t.st.Address = [s.st.Address EXCEPT ![h] = IF r \in Bitmaps THEN AddressOf(s, r) ELSE @]
  BY <1>0 DEF IsSetUp
<1> HIDE DEF t
<1>8. Matches(t.st, t.eng)
  <2>1. ASSUME NEW g \in Handles \ {Scratch}, g # h, t.st.Info[g] # Nobody
        PROVE  /\ t.eng[g].of = t.st.Info[g]
               /\ t.eng[g].source = <<t.st.Info[g],
                                      IF t.st.Info[g] \in Bitmaps THEN t.st.Address[g] ELSE Invalid,
                                      t.st.Page[g]>>
               /\ t.st.Info[g] \in RomFonts => t.st.Page[g] = 0 /\ ~t.eng[g].scaled
               /\ t.eng[g].scaled => t.st.Resized[g]
    <3>1. /\ t.eng[g] = s.eng[g] /\ t.st.Info[g] = s.st.Info[g] /\ t.st.Address[g] = s.st.Address[g]
          /\ t.st.Page[g] = s.st.Page[g] /\ t.st.Resized[g] = s.st.Resized[g]
      BY <1>4, <1>5, <1>6, <1>7, <2>1 DEF Engines
    <3>. QED
      BY <1>1, <2>1, <3>1 DEF Matches
  <2>2. ASSUME h # Scratch
        PROVE  /\ t.eng[h].of = t.st.Info[h]
               /\ t.eng[h].source = <<t.st.Info[h],
                                      IF t.st.Info[h] \in Bitmaps THEN t.st.Address[h] ELSE Invalid,
                                      t.st.Page[h]>>
               /\ t.st.Page[h] = 0
               /\ ~t.eng[h].scaled
    <3>1. /\ t.eng[h] = SetFor(r, AddressOf(s, r)) /\ t.st.Info[h] = r /\ t.st.Page[h] = 0
          /\ r \in Bitmaps => t.st.Address[h] = AddressOf(s, r)
      BY <1>4, <1>5, <1>7, <2>2 DEF Engines
    <3>2. r \notin Bitmaps => AddressOf(s, r) = Invalid
      BY DEF AddressOf, Shown
    <3>. QED
      BY <3>1, <3>2 DEF SetFor
  <2>3. t.st.Info[Scratch] = Nobody /\ t.st.Page[Scratch] = 0
    BY <1>1, <1>4, <1>5, <1>6, <1>7, Basics DEF Matches
  <2>. QED
    BY <2>1, <2>2, <2>3 DEF Matches
<1>9. Taken(t.st, t.drawn)
  <2>1. ASSUME NEW d \in s.drawn, d.handle # Scratch
        PROVE  t.st.Info[d.handle] = d.of /\ t.st.Use[d.handle] = 2
    <3>1. d.handle \in Handles /\ s.st.Info[d.handle] = d.of /\ s.st.Use[d.handle] = 2
      BY <1>1, <1>4, <2>1 DEF Taken, Draws
    <3>2. d.handle # h
      BY <2>1, <3>1
    <3>. QED
      BY <1>4, <1>5, <1>6, <1>7, <3>1, <3>2
  <2>. QED
    BY <1>2, <2>1 DEF Taken, Same
<1>10. Good(t)
  BY <1>1, <1>2, <1>8, <1>9 DEF Good, Same
<1>11. h # Scratch => /\ t.st.Info[h] = r /\ t.st.GpuHandle[h] = GpuHandleOf(t, r)
                      /\ r \in Bitmaps => t.st.Address[h] = AddressOf(t, r)
  BY <1>3, <1>4, <1>7
<1>12. h = Scratch => ScratchReady(t, r, FALSE) /\ ~t.st.Resized[Scratch]
  BY <1>3, <1>4, <1>5 DEF ScratchReady, SetFor, Engines
<1>13. BecomesSet(s, h, r, t)
  BY <1>2, <1>5, <1>10, <1>11, <1>12 DEF BecomesSet
<1>. QED
  BY <1>13 DEF t

(* What is ready to be drawn remains so while another is set up.           *)
Keeps(s, t) ==
  \A g \in Handles \ {Scratch}, q \in Shown : Ready(s, g, q) => Ready(t, g, q)

IsSetup(s, r, t) ==
  /\ Good(t) /\ Same(s, t) /\ Keeps(s, t)
  /\ \A q \in Shown \ {r} : t.bh[q] = s.bh[q]
  /\ Ready(t, t.bh[r], r)
  /\ t.bh[r] = Scratch => ScratchReady(t, r, FALSE) /\ ~t.st.Resized[Scratch]
  /\ StillSet(s, r) => t.bh = s.bh

LEMMA SetupGood ==
  ASSUME NEW s, Good(s), NEW r \in Shown
  PROVE  IsSetup(s, r, Setup(s, r))
<1> DEFINE u == IF StillSet(s, r) THEN s ELSE SetUp(s, HandleFor(s, r), r)
           h == u.bh[r]
           t == MarkUsed(u, r)
<1>1. s \in Records /\ t = Setup(s, r)
  BY DEF Good, Setup
<1>2. /\ Good(u) /\ Same(s, u)
      /\ \A q \in Shown \ {r} : u.bh[q] = s.bh[q]
      /\ h \in Handles
      /\ h # Scratch => /\ u.st.Info[h] = r /\ u.st.GpuHandle[h] = GpuHandleOf(u, r)
                        /\ r \in Bitmaps => u.st.Address[h] = AddressOf(u, r)
      /\ h = Scratch => ScratchReady(u, r, FALSE) /\ ~u.st.Resized[Scratch]
      /\ Keeps(s, u)
      /\ StillSet(s, r) => u = s
  <2>1. CASE StillSet(s, r)
    BY <2>1 DEF StillSet, Same, Keeps
  <2>2. CASE ~StillSet(s, r)
    <3> DEFINE g == HandleFor(s, r)
    <3>1. g \in Handles /\ (g # Scratch => s.st.Use[g] = 0)
      BY <1>1, HandleGiven
    <3>2. u = SetUp(s, g, r)
      BY <2>2
    <3> HIDE DEF g, u
    <3>3. /\ Good(u) /\ Same(s, u) /\ u.bh = [s.bh EXCEPT ![r] = g]
          /\ g # Scratch => /\ u.st.Info[g] = r /\ u.st.GpuHandle[g] = GpuHandleOf(u, r)
                            /\ r \in Bitmaps => u.st.Address[g] = AddressOf(u, r)
          /\ g = Scratch => ScratchReady(u, r, FALSE) /\ ~u.st.Resized[Scratch]
      <4>1. BecomesSet(s, g, r, u)
        BY <3>1, <3>2, SetUpGood
      <4>. QED
        BY <4>1 DEF BecomesSet
    <3>4. u.bh[r] = g /\ \A q \in Shown \ {r} : u.bh[q] = s.bh[q]
      BY <1>1, <3>3, RecordParts
    <3>5. Keeps(s, u)
      <4> SUFFICES ASSUME NEW k \in Handles \ {Scratch}, NEW q \in Shown, Ready(s, k, q)
                   PROVE  Ready(u, k, q)
        BY DEF Keeps
      <4>1. k # g
        BY <3>1 DEF Ready
      <4>2. IsSetUp(s, g, r, u)
        BY <1>1, <3>1, <3>2, SetUpFields
      <4>3. /\ u.st.Info[k] = s.st.Info[k] /\ u.st.Use[k] = s.st.Use[k]
            /\ u.st.GpuHandle[k] = s.st.GpuHandle[k] /\ u.st.Address[k] = s.st.Address[k]
        BY <1>1, <4>1, <4>2, RecordParts DEF IsSetUp
      <4>4. AddressOf(u, q) = AddressOf(s, q) /\ GpuHandleOf(u, q) = GpuHandleOf(s, q)
        BY <3>3, SameAddress
      <4>. QED
        BY <4>3, <4>4 DEF Ready
    <3>. QED
      BY <2>2, <3>1, <3>3, <3>4, <3>5
  <2>. QED
    BY <2>1, <2>2
<1> HIDE DEF u
<1>3. u \in Records /\ Matches(u.st, u.eng) /\ Taken(u.st, u.drawn) /\ (u.ok => Right(u.drawn))
  BY <1>2 DEF Good
<1>4. Marked(u, r, t)
  BY <1>2, <1>3, MarkUsedFields
<1> HIDE DEF t
<1>5. \A g \in Handles : /\ t.st.Use[g] = s.st.Use[g] \/ t.st.Use[g] = 2 \/ t.st.Use[g] = u.st.Use[g]
                         /\ u.st.Use[g] = 2 => t.st.Use[g] = 2
                         /\ h = g /\ g # Scratch => t.st.Use[g] = 2
  BY <1>2, <1>3, <1>4, RecordParts DEF Marked
<1>6. Taken(t.st, t.drawn)
  <2>1. \A d \in u.drawn : d.handle \in Handles
    BY <1>3, RecordParts DEF Draws
  <2>. QED
    BY <1>3, <1>4, <1>5, <2>1 DEF Taken, Marked
<1>7. Matches(t.st, t.eng)
  BY <1>3, <1>4 DEF Matches, Marked
<1>8. Good(t) /\ Same(u, t) /\ t.bh = u.bh
  BY <1>3, <1>4, <1>6, <1>7 DEF Good, Same, Marked
<1>9. Same(s, t)
  BY <1>2, <1>8 DEF Same
<1>10. \A q : AddressOf(t, q) = AddressOf(u, q) /\ GpuHandleOf(t, q) = GpuHandleOf(u, q)
  BY <1>8, SameAddress
<1>11. Ready(t, h, r)
  BY <1>2, <1>4, <1>5, <1>10 DEF Ready, Marked
<1>12. Keeps(s, t)
  BY <1>2, <1>4, <1>5, <1>10 DEF Keeps, Ready, Marked
<1>13. h = Scratch => ScratchReady(t, r, FALSE) /\ ~t.st.Resized[Scratch]
  BY <1>2, <1>4, <1>10 DEF ScratchReady, Marked
<1>14. /\ \A q \in Shown \ {r} : t.bh[q] = s.bh[q]
       /\ t.bh[r] = h
       /\ StillSet(s, r) => t.bh = s.bh
  BY <1>2, <1>8
<1>15. IsSetup(s, r, t)
  BY <1>8, <1>9, <1>11, <1>12, <1>13, <1>14 DEF IsSetup
<1>. QED
  BY <1>1, <1>15

(* The size of a handle, for a bitmap that is ready.                       *)
IsSized(s, h, scaled, t) ==
  /\ Good(t) /\ Same(s, t) /\ Keeps(s, t) /\ t.bh = s.bh
  /\ \A g \in Handles \ {h} : t.eng[g] = s.eng[g]
  /\ t.eng[h] = [s.eng[h] EXCEPT !.scaled = t.eng[h].scaled]
  /\ t.eng[h].scaled \in BOOLEAN

LEMMA ResizeGood ==
  ASSUME NEW s, Good(s), NEW h \in Handles, NEW scaled \in BOOLEAN,
         scaled => h = Scratch \/ s.st.Info[h] \notin RomFonts
  PROVE  LET t == Resize(s, h, scaled) IN IsSized(s, h, scaled, t) /\ t.eng[h].scaled = scaled
<1> DEFINE t == Resize(s, h, scaled)
<1>1. s \in Records /\ Matches(s.st, s.eng) /\ Taken(s.st, s.drawn) /\ (s.ok => Right(s.drawn))
  BY DEF Good
<1>2. Resized(s, h, scaled, t)
  BY <1>1, ResizeFields
<1> HIDE DEF t
<1>3. s.eng \in Engines /\ s.st.Resized \in [Handles -> BOOLEAN]
  BY <1>1, RecordParts
<1>4. /\ t.eng[h] = [s.eng[h] EXCEPT !.scaled = scaled]
      /\ \A g \in Handles \ {h} : t.eng[g] = s.eng[g]
      /\ t.st.Resized[h] = TRUE
      /\ \A g \in Handles \ {h} : t.st.Resized[g] = s.st.Resized[g]
  BY <1>2, <1>3 DEF Resized, Engines
<1>5. t.eng[h].of = s.eng[h].of /\ t.eng[h].source = s.eng[h].source /\ t.eng[h].scaled = scaled
  BY <1>3, <1>4 DEF Engines
<1>6. Matches(t.st, t.eng)
  <2>1. /\ t.st.Info = s.st.Info /\ t.st.Page = s.st.Page /\ t.st.Address = s.st.Address
    BY <1>2 DEF Resized
  <2>2. ASSUME NEW g \in Handles \ {Scratch}, t.st.Info[g] # Nobody
        PROVE  /\ t.eng[g].of = s.eng[g].of /\ t.eng[g].source = s.eng[g].source
               /\ t.eng[g].scaled => t.st.Resized[g]
               /\ t.st.Info[g] \in RomFonts => ~t.eng[g].scaled
    <3>1. /\ s.eng[g].scaled => s.st.Resized[g]
          /\ s.st.Info[g] \in RomFonts => ~s.eng[g].scaled
      BY <1>1, <2>1, <2>2 DEF Matches
    <3>2. CASE g = h
      <4>1. t.st.Info[g] \in RomFonts => ~scaled
        BY <2>1, <2>2, <3>2
      <4>. QED
        BY <1>4, <1>5, <3>2, <4>1
    <3>3. CASE g # h
      BY <1>4, <2>1, <3>1, <3>3
    <3>. QED
      BY <3>2, <3>3
  <2>. QED
    BY <1>1, <2>1, <2>2 DEF Matches
<1>7. Taken(t.st, t.drawn)
  BY <1>1, <1>2 DEF Taken, Resized
<1>8. Good(t) /\ Same(s, t) /\ t.bh = s.bh
  BY <1>1, <1>2, <1>6, <1>7 DEF Good, Same, Resized
<1>9. Keeps(s, t)
  <2>1. \A q : AddressOf(t, q) = AddressOf(s, q) /\ GpuHandleOf(t, q) = GpuHandleOf(s, q)
    BY <1>8, SameAddress
  <2>. QED
    BY <1>2, <2>1 DEF Keeps, Ready, Resized
<1>. QED
  BY <1>4, <1>5, <1>8, <1>9 DEF IsSized, t

LEMMA SizeResetGood ==
  ASSUME NEW s, Good(s), NEW h \in Handles
  PROVE  LET t == SizeReset(s, h)
         IN  /\ IsSized(s, h, FALSE, t)
             /\ h # Scratch /\ s.st.Info[h] # Nobody => t.eng[h].scaled = FALSE
             /\ ~s.st.Resized[h] => t = s
<1> DEFINE u == Resize(s, h, FALSE)
           t == SizeReset(s, h)
<1>1. IsSized(s, h, FALSE, u) /\ u.eng[h].scaled = FALSE
  BY ResizeGood
<1>2. s \in Records /\ u \in Records
  BY <1>1 DEF Good, IsSized
<1>3. CASE ~s.st.Resized[h]
  <2>1. t = s
    BY <1>3 DEF SizeReset
  <2>2. s.eng[h] \in [of : Someone, source : Someone \X Places \X Pages, scaled : BOOLEAN]
    BY <1>2, RecordParts DEF Engines
  <2>3. IsSized(s, h, FALSE, s)
    BY <2>2 DEF IsSized, Same, Keeps
  <2>4. h # Scratch /\ s.st.Info[h] # Nobody => s.eng[h].scaled = FALSE
    BY <1>3, <2>2 DEF Good, Matches
  <2>. QED
    BY <2>1, <2>3, <2>4
<1>4. CASE s.st.Resized[h]
  <2> DEFINE res2 == [u.st.Resized EXCEPT ![h] = FALSE]
             st2  == [u.st EXCEPT !.Resized = res2]
  <2>1. t = [u EXCEPT !.st = st2]
    BY <1>4 DEF SizeReset
  <2>a. res2 \in [Handles -> BOOLEAN]
    BY <1>2, RecordParts
  <2>b. st2 \in States
    BY <1>2, <2>a, RecordParts, StateWith
  <2>2. t \in Records
    <3> HIDE DEF u, t, st2
    <3>. QED
      BY <1>2, <2>1, <2>b, RecordWith
  <2> HIDE DEF u
  <2>3. /\ t.bh = u.bh /\ t.eng = u.eng /\ Same(u, t)
        /\ t.st.Info = u.st.Info /\ t.st.Use = u.st.Use /\ t.st.Page = u.st.Page
        /\ t.st.GpuHandle = u.st.GpuHandle /\ t.st.Address = u.st.Address
        /\ t.st.Resized = [u.st.Resized EXCEPT ![h] = FALSE]
    <3>1. t.st = st2 /\ t.bh = u.bh /\ t.eng = u.eng /\ Same(u, t)
      <4> HIDE DEF u, t, st2
      <4>. QED
        BY <1>2, <2>1 DEF Records, Same
    <3>2. u.st \in States
      BY <1>2, RecordParts
    <3>. HIDE DEF u, t
    <3>3. /\ st2.Info = u.st.Info /\ st2.Use = u.st.Use /\ st2.Page = u.st.Page
          /\ st2.GpuHandle = u.st.GpuHandle /\ st2.Address = u.st.Address
          /\ st2.Resized = res2
      BY <3>2 DEF States
    <3>. QED
      BY <3>1, <3>3
  <2> HIDE DEF t
  <2>4. Good(u)
    BY <1>1 DEF IsSized
  <2>5. Matches(t.st, t.eng)
    <3>1. \A g \in Handles \ {h} : t.st.Resized[g] = u.st.Resized[g]
      BY <1>2, <2>3, RecordParts
    <3>. QED
      BY <1>1, <2>3, <2>4, <3>1 DEF Good, Matches
  <2>6. Good(t)
    BY <2>2, <2>3, <2>4, <2>5 DEF Good, Same, Taken
  <2>7. Keeps(u, t)
    <3>1. \A q : AddressOf(t, q) = AddressOf(u, q) /\ GpuHandleOf(t, q) = GpuHandleOf(u, q)
      BY <2>3, SameAddress
    <3>. QED
      BY <2>3, <3>1 DEF Keeps, Ready
  <2>8. IsSized(s, h, FALSE, t)
    BY <1>1, <2>3, <2>6, <2>7 DEF IsSized, Same, Keeps
  <2>. QED
    BY <1>1, <1>4, <2>3, <2>8 DEF t
<1>. QED
  BY <1>3, <1>4

(***************************************************************************)
(* A cell is drawn through the handle that is ready for it.                *)
(***************************************************************************)
(* The handle is as the draw wants it; a bitmap of a pair may have lost    *)
(* the scratch handle to the other.                                        *)
MayDraw(s, h, r, p, scaled, pair) ==
  /\ Good(s) /\ Ready(s, h, r)
  /\ r \in RomFonts => p = 0
  /\ h # Scratch => s.eng[h].scaled = scaled
  /\ h = Scratch => pair \/ ScratchReady(s, r, scaled)

IsPaged(s, h, t) ==
  /\ t \in Records /\ Matches(t.st, t.eng) /\ Keeps(s, t)
  /\ t.bh = s.bh /\ t.where = s.where /\ t.seq = s.seq /\ t.drawn = s.drawn
  /\ t.st.Info = s.st.Info /\ t.st.Use = s.st.Use
  /\ t.ok => s.ok
  /\ \A g \in Handles : t.eng[g].scaled = s.eng[g].scaled

LEMMA PagedGood ==
  ASSUME NEW s, NEW h, NEW r \in Shown, NEW p \in Pages, NEW scaled \in BOOLEAN,
         NEW pair \in BOOLEAN, MayDraw(s, h, r, p, scaled, pair)
  PROVE  LET t == PagedSource(s, h, p)
         IN  /\ IsPaged(s, h, t)
             /\ t.ok /\ (h # Scratch \/ ~pair) =>
                  t.eng[h] = [of |-> r, source |-> <<r, AddressOf(s, r), p>>, scaled |-> scaled]
<1> DEFINE t == PagedSource(s, h, p)
<1>1. /\ s \in Records /\ Matches(s.st, s.eng) /\ h \in Handles
      /\ h # Scratch => /\ s.st.Info[h] = r /\ s.st.GpuHandle[h] = GpuHandleOf(s, r)
                        /\ r \in Bitmaps => s.st.Address[h] = AddressOf(s, r)
                        /\ s.eng[h].scaled = scaled
      /\ r \in RomFonts => p = 0
      /\ h = Scratch => pair \/ ScratchReady(s, r, scaled)
  BY DEF MayDraw, Good, Ready
<1>2. s.eng[h] \in [of : Someone, source : Someone \X Places \X Pages, scaled : BOOLEAN]
  BY <1>1, RecordParts DEF Engines
<1>3. /\ r # Nobody
      /\ r \notin Bitmaps => r \in RomFonts /\ AddressOf(s, r) = Invalid
  BY Basics DEF AddressOf, Shown
<1>4. h # Scratch => s.eng[h] = [of |-> r, source |-> <<r, AddressOf(s, r), s.st.Page[h]>>,
                                 scaled |-> scaled]
  BY <1>1, <1>2, <1>3 DEF Matches
<1>5. CASE s.st.Page[h] = p
  <2>1. t = s
    BY <1>5 DEF PagedSource
  <2>2. h = Scratch => p = 0
    BY <1>1, <1>5 DEF Matches
  <2>3. IsPaged(s, h, s)
    BY <1>1 DEF IsPaged, Keeps
  <2>4. h # Scratch \/ ~pair =>
          s.eng[h] = [of |-> r, source |-> <<r, AddressOf(s, r), p>>, scaled |-> scaled]
    BY <1>1, <1>4, <1>5, <2>2 DEF ScratchReady
  <2>. QED
    BY <2>1, <2>3, <2>4
<1>6. CASE s.st.Page[h] # p /\ s.st.Info[h] = Nobody
  <2>1. t = [s EXCEPT !.ok = FALSE]
    BY <1>6 DEF PagedSource
  <2>2. t \in Records
    BY <1>1, <2>1, RecordWith
  <2>3. /\ ~t.ok /\ t.st = s.st /\ t.eng = s.eng /\ t.bh = s.bh /\ t.where = s.where
        /\ t.seq = s.seq /\ t.drawn = s.drawn
    BY <1>1, <2>1 DEF Records
  <2> HIDE DEF t
  <2>4. IsPaged(s, h, t)
    BY <1>1, <2>2, <2>3 DEF IsPaged, Keeps, Ready, AddressOf, GpuHandleOf
  <2>. QED
    BY <2>3, <2>4 DEF t
<1>7. CASE s.st.Page[h] # p /\ s.st.Info[h] # Nobody
  <2> DEFINE src2 == <<s.st.Info[h], Get(s, s.st.GpuHandle[h]), p>>
             eng2 == [s.eng EXCEPT ![h].source = src2]
             pg2  == [s.st.Page EXCEPT ![h] = p]
             st2  == [s.st EXCEPT !.Page = pg2]
             t1   == [s EXCEPT !.eng = eng2]
             t2   == [t1 EXCEPT !.st = st2]
  <2>1. h # Scratch /\ r \notin RomFonts
    BY <1>1, <1>7 DEF Matches
  <2>2. r \in Bitmaps /\ s.st.Info[h] = r /\ s.st.GpuHandle[h] = <<r, s.seq[r]>>
        /\ Get(s, s.st.GpuHandle[h]) = AddressOf(s, r) /\ s.st.Address[h] = AddressOf(s, r)
    BY <1>1, <1>3, <2>1 DEF Get, GpuHandleOf, AddressOf
  <2>3. src2 = <<r, AddressOf(s, r), p>> /\ src2 \in Someone \X Places \X Pages
    BY <1>1, <2>2, AddressTyped DEF Someone
  <2>4. t = t2
    BY <1>1, <1>7 DEF PagedSource, Records, States
  <2> HIDE DEF src2
  <2>5. /\ eng2 \in Engines /\ pg2 \in [Handles -> Pages]
        /\ eng2[h] = [of |-> r, source |-> src2, scaled |-> scaled]
        /\ \A g \in Handles \ {h} : eng2[g] = s.eng[g]
        /\ pg2[h] = p
        /\ \A g \in Handles \ {h} : pg2[g] = s.st.Page[g]
    <3>1. s.eng \in Engines /\ s.st.Page \in [Handles -> Pages]
      BY <1>1, RecordParts
    <3>2. [s.eng[h] EXCEPT !.source = src2] = [of |-> r, source |-> src2, scaled |-> scaled]
      BY <1>4, <2>1
    <3>3. eng2 = [s.eng EXCEPT ![h] = [s.eng[h] EXCEPT !.source = src2]]
      OBVIOUS
    <3>4. [of |-> r, source |-> src2, scaled |-> scaled] \in
            [of : Someone, source : Someone \X Places \X Pages, scaled : BOOLEAN]
      BY <2>3 DEF Someone
    <3> HIDE DEF eng2
    <3>. QED
      BY <1>1, <3>1, <3>2, <3>3, <3>4 DEF Engines
  <2> HIDE DEF eng2, pg2
  <2>6. st2 \in States
    BY <1>1, <2>5, RecordParts, StateWith
  <2>7. t1 \in Records
    BY <1>1, <2>5, RecordWith
  <2>8. t2 \in Records
    <3> HIDE DEF t1, st2
    <3>. QED
      BY <2>6, <2>7, RecordWith
  <2>9. /\ t2.eng = eng2 /\ t2.st.Page = pg2 /\ t2.bh = s.bh /\ t2.ok = s.ok
        /\ t2.where = s.where /\ t2.seq = s.seq /\ t2.drawn = s.drawn
        /\ t2.st.Info = s.st.Info /\ t2.st.Use = s.st.Use /\ t2.st.Address = s.st.Address
        /\ t2.st.GpuHandle = s.st.GpuHandle /\ t2.st.Resized = s.st.Resized
    BY <1>1 DEF Records, States
  <2> HIDE DEF t2
  <2>10. Matches(t2.st, t2.eng)
    <3>1. t2.st.Info[Scratch] = Nobody /\ t2.st.Page[Scratch] = 0
      BY <1>1, <2>1, <2>5, <2>9, Basics DEF Matches
    <3>2. ASSUME NEW g \in Handles \ {Scratch}, g # h, t2.st.Info[g] # Nobody
          PROVE  /\ t2.eng[g].of = t2.st.Info[g]
                 /\ t2.eng[g].source = <<t2.st.Info[g],
                           IF t2.st.Info[g] \in Bitmaps THEN t2.st.Address[g] ELSE Invalid,
                           t2.st.Page[g]>>
                 /\ t2.st.Info[g] \in RomFonts => t2.st.Page[g] = 0 /\ ~t2.eng[g].scaled
                 /\ t2.eng[g].scaled => t2.st.Resized[g]
      BY <1>1, <2>5, <2>9, <3>2 DEF Matches
    <3>3. /\ t2.eng[h].of = t2.st.Info[h]
          /\ t2.eng[h].source = <<t2.st.Info[h],
                           IF t2.st.Info[h] \in Bitmaps THEN t2.st.Address[h] ELSE Invalid,
                           t2.st.Page[h]>>
          /\ t2.st.Info[h] \notin RomFonts
      BY <1>1, <2>1, <2>2, <2>3, <2>5, <2>9
    <3>4. t2.eng[h].scaled => t2.st.Resized[h]
      <4>1. t2.eng[h].scaled = scaled /\ s.eng[h].scaled = scaled
        BY <1>1, <2>1, <2>5, <2>9
      <4>2. s.eng[h].scaled => s.st.Resized[h]
        BY <1>1, <1>7, <2>1 DEF Matches
      <4>. QED
        BY <2>9, <4>1, <4>2
    <3>. QED
      BY <3>1, <3>2, <3>3, <3>4 DEF Matches
  <2>11. Keeps(s, t2)
    BY <2>9 DEF Keeps, Ready, AddressOf, GpuHandleOf
  <2>12. \A g \in Handles : t2.eng[g].scaled = s.eng[g].scaled
    BY <1>1, <2>1, <2>5, <2>9
  <2>13. IsPaged(s, h, t2)
    BY <2>8, <2>9, <2>10, <2>11, <2>12 DEF IsPaged
  <2>14. t2.eng[h] = [of |-> r, source |-> <<r, AddressOf(s, r), p>>, scaled |-> scaled]
    BY <2>3, <2>5, <2>9
  <2>. QED
    BY <2>4, <2>13, <2>14
<1>. QED
  BY <1>5, <1>6, <1>7

IsDrawn(s, t) ==
  /\ Good(t) /\ Keeps(s, t) /\ t.where = s.where /\ t.seq = s.seq /\ t.bh = s.bh
  /\ \A g \in Handles : t.eng[g].scaled = s.eng[g].scaled

LEMMA VertexGood ==
  ASSUME NEW s, NEW h, NEW r \in Shown, NEW p \in Pages, NEW scaled \in BOOLEAN,
         NEW pair \in BOOLEAN, MayDraw(s, h, r, p, scaled, pair)
  PROVE  IsDrawn(s, Vertex(s, h, r, p, scaled, pair))
<1> DEFINE u == PagedSource(s, h, p)
           want == [of |-> r, source |-> <<r, AddressOf(s, r), p>>, scaled |-> scaled]
           d == [handle |-> h, of |-> r, pair |-> pair, right |-> u.eng[h] = want]
           t == Vertex(s, h, r, p, scaled, pair)
<1>1. /\ IsPaged(s, h, u)
      /\ u.ok /\ (h # Scratch \/ ~pair) => u.eng[h] = want
  BY PagedGood
<1>2. t = [u EXCEPT !.drawn = @ \cup {d}]
  BY DEF Vertex
<1> HIDE DEF u, want
<1>3. d \in Draws /\ d.handle = h /\ d.of = r /\ d.pair = pair /\ d.right = (u.eng[h] = want)
  BY DEF Draws, MayDraw, Ready
<1> HIDE DEF d
<1>4. u.ok /\ (h # Scratch \/ ~pair) => d.right
  BY <1>1, <1>3
<1>6. /\ u \in Records /\ u.drawn = s.drawn /\ u.drawn \in SUBSET Draws
      /\ Taken(s.st, s.drawn) /\ (s.ok => Right(s.drawn))
      /\ (h # Scratch => s.st.Info[h] = r /\ s.st.Use[h] = 2)
  BY <1>1, RecordParts DEF IsPaged, MayDraw, Good, Ready
<1>7. t \in Records
  <2>1. u.drawn \cup {d} \in SUBSET Draws
    BY <1>3, <1>6
  <2>. QED
    BY <1>2, <1>6, <2>1, RecordWith
<1>8. /\ t.drawn = u.drawn \cup {d} /\ t.st = u.st /\ t.eng = u.eng /\ t.bh = u.bh
      /\ t.where = u.where /\ t.seq = u.seq /\ t.ok = u.ok
  BY <1>2, <1>6 DEF Records
<1> HIDE DEF t
<1>9. Taken(t.st, t.drawn)
  BY <1>1, <1>3, <1>6, <1>8 DEF IsPaged, Taken
<1>10. t.ok => Right(t.drawn)
  <2>1. t.ok => s.ok /\ u.ok
    BY <1>1, <1>8 DEF IsPaged
  <2>2. u.ok => d.right \/ (d.pair /\ d.handle = Scratch)
    BY <1>3, <1>4
  <2>. QED
    BY <1>6, <1>8, <2>1, <2>2 DEF Right
<1>11. Good(t)
  BY <1>1, <1>7, <1>8, <1>9, <1>10 DEF Good, IsPaged
<1>12. Keeps(s, t)
  BY <1>1, <1>8 DEF IsPaged, Keeps, Ready, AddressOf, GpuHandleOf
<1>13. /\ t.where = s.where /\ t.seq = s.seq /\ t.bh = s.bh
       /\ \A g \in Handles : t.eng[g].scaled = s.eng[g].scaled
  BY <1>1, <1>8 DEF IsPaged
<1>14. IsDrawn(s, t)
  BY <1>11, <1>12, <1>13 DEF IsDrawn
<1>. QED
  BY <1>14 DEF t

(* The size is set for the bitmap that was just set up.                    *)
SizedFor(s, b, scaled, t) ==
  /\ IsSized(s, s.bh[b], scaled, t)
  /\ s.bh[b] # Scratch => t.eng[s.bh[b]].scaled = scaled
  /\ s.bh[b] = Scratch /\ ScratchReady(s, b, FALSE) /\ ~s.st.Resized[Scratch] =>
       ScratchReady(t, b, scaled)

LEMMA SizedGood ==
  ASSUME NEW s, Good(s), NEW b \in Bitmaps, NEW scaled \in BOOLEAN, Ready(s, s.bh[b], b)
  PROVE  SizedFor(s, b, scaled, Sized(s, b, scaled))
<1> DEFINE h == s.bh[b]
           t == Sized(s, b, scaled)
<1>1. h \in Handles /\ (h # Scratch => s.st.Info[h] # Nobody)
  BY Basics DEF Ready, Shown
<1>2. CASE scaled
  <2>1. t = Resize(s, h, TRUE)
    BY <1>2 DEF Sized
  <2>0. h # Scratch => s.st.Info[h] \notin RomFonts
    BY HandleAssumption DEF Ready
  <2>2. IsSized(s, h, TRUE, t) /\ t.eng[h].scaled = TRUE
    BY <1>1, <2>0, <2>1, ResizeGood
  <2> HIDE DEF t
  <2>3. ASSUME h = Scratch, ScratchReady(s, b, FALSE)
        PROVE  ScratchReady(t, b, TRUE)
    <3>1. AddressOf(t, b) = AddressOf(s, b)
      <4>1. Same(s, t)
        BY <2>2 DEF IsSized
      <4>. QED
        BY <4>1, SameAddress
    <3>2. /\ t.eng[Scratch] = [s.eng[Scratch] EXCEPT !.scaled = t.eng[Scratch].scaled]
          /\ t.eng[Scratch].scaled = TRUE
      BY <2>2, <2>3 DEF IsSized
    <3>3. s.eng[Scratch] \in [of : Someone, source : Someone \X Places \X Pages, scaled : BOOLEAN]
      BY Basics, RecordParts DEF Good, Engines
    <3>4. t.eng[Scratch] \in [of : Someone, source : Someone \X Places \X Pages, scaled : BOOLEAN]
      BY <2>2, Basics, RecordParts DEF IsSized, Good, Engines
    <3>5. t.eng[Scratch].of = s.eng[Scratch].of /\ t.eng[Scratch].source = s.eng[Scratch].source
      BY <3>2, <3>3
    <3>6. s.eng[Scratch].of = b /\ s.eng[Scratch].source = <<b, AddressOf(s, b), 0>>
      BY <2>3 DEF ScratchReady
    <3>7. t.eng[Scratch].of = b /\ t.eng[Scratch].source = <<b, AddressOf(t, b), 0>>
      BY <3>1, <3>5, <3>6
    <3> DEFINE e == t.eng[Scratch]
               src == <<b, AddressOf(t, b), 0>>
    <3>8. e.of = b /\ e.source = src /\ e.scaled = TRUE
      BY <3>2, <3>7
    <3>9. e \in [of : Someone, source : Someone \X Places \X Pages, scaled : BOOLEAN]
      BY <3>4
    <3> HIDE DEF e, src
    <3>10. e = [of |-> b, source |-> src, scaled |-> TRUE]
      BY <3>8, <3>9
    <3>. QED
      BY <3>10 DEF ScratchReady, e, src
  <2>4. scaled = TRUE
    BY <1>2
  <2>5. SizedFor(s, b, scaled, t)
    BY <2>2, <2>3, <2>4 DEF SizedFor
  <2>. QED
    BY <2>5 DEF t
<1>3. CASE ~scaled
  <2>1. t = SizeReset(s, h)
    BY <1>3 DEF Sized
  <2>2. /\ IsSized(s, h, FALSE, t)
        /\ h # Scratch => t.eng[h].scaled = FALSE
        /\ ~s.st.Resized[h] => t = s
    <3> HIDE DEF h, t
    <3>. QED
      BY ONLY Good(s), <1>1, <2>1, SizeResetGood
  <2> HIDE DEF t
  <2>3. scaled = FALSE
    BY <1>3
  <2>4. SizedFor(s, b, scaled, t)
    BY <2>2, <2>3 DEF SizedFor
  <2>. QED
    BY <2>4 DEF t
<1>. QED
  BY <1>2, <1>3

(***************************************************************************)
(* The draw functions.                                                     *)
(***************************************************************************)
IsRendered(s, t) == Good(t) /\ t.where = s.where /\ t.seq = s.seq

LEMMA RenderOneGood ==
  ASSUME NEW s, Good(s), NEW b \in Bitmaps, NEW p \in Pages, NEW scaled \in BOOLEAN
  PROVE  IsRendered(s, RenderOne(s, b, p, scaled))
<1> DEFINE t == Setup(s, b)
           u == Sized(t, b, scaled)
           v == Vertex(u, t.bh[b], b, p, scaled, FALSE)
<1>0. b \in Shown /\ b \notin RomFonts
  BY HandleAssumption DEF Shown
<1>1. IsSetup(s, b, t)
  BY <1>0, SetupGood
<1>2. RenderOne(s, b, p, scaled) = v
  BY DEF RenderOne
<1> HIDE DEF t
<1>3. SizedFor(t, b, scaled, u)
  BY <1>1, SizedGood DEF IsSetup
<1> HIDE DEF u
<1>4. Ready(u, t.bh[b], b)
  <2>1. t.bh[b] # Scratch => Ready(u, t.bh[b], b)
    BY <1>0, <1>1, <1>3 DEF IsSetup, IsSized, SizedFor, Keeps, Ready
  <2>. QED
    BY <1>1, <2>1 DEF IsSetup, Ready
<1>5. MayDraw(u, t.bh[b], b, p, scaled, FALSE)
  BY <1>0, <1>1, <1>3, <1>4 DEF MayDraw, IsSized, SizedFor, IsSetup
<1>6. IsDrawn(u, v)
  BY <1>0, <1>5, VertexGood
<1> HIDE DEF v
<1>7. u.where = s.where /\ u.seq = s.seq
  BY <1>1, <1>3 DEF IsSetup, IsSized, SizedFor, Same
<1>. QED
  BY <1>2, <1>6, <1>7 DEF IsDrawn, IsRendered

(* Both bitmaps of a pair are ready; on the scratch handle the second is.  *)
PairReady(s, hb, b, ha, a, scaled) ==
  /\ Good(s) /\ Ready(s, hb, b) /\ Ready(s, ha, a)
  /\ hb # Scratch => s.eng[hb].scaled = scaled
  /\ ha # Scratch => s.eng[ha].scaled = scaled

PairDrawn(s, t, hb, b, ha, a, scaled) ==
  PairReady(t, hb, b, ha, a, scaled) /\ t.where = s.where /\ t.seq = s.seq

(* A cell of either may be drawn, and both stay ready.                     *)
LEMMA PairVertex ==
  ASSUME NEW s, NEW hb, NEW b \in Bitmaps, NEW ha, NEW a \in Bitmaps,
         NEW scaled \in BOOLEAN, PairReady(s, hb, b, ha, a, scaled), NEW p \in Pages
  PROVE  /\ PairDrawn(s, Vertex(s, hb, b, p, scaled, TRUE), hb, b, ha, a, scaled)
         /\ PairDrawn(s, Vertex(s, ha, a, p, scaled, TRUE), hb, b, ha, a, scaled)
<1>0. /\ b \in Shown /\ b \notin RomFonts /\ a \in Shown /\ a \notin RomFonts
      /\ TRUE \in BOOLEAN
  BY HandleAssumption DEF Shown
<1>1. ASSUME NEW t, IsDrawn(s, t)
      PROVE  PairDrawn(s, t, hb, b, ha, a, scaled)
  BY <1>0, <1>1 DEF IsDrawn, PairDrawn, PairReady, Keeps, Ready
<1>2. IsDrawn(s, Vertex(s, hb, b, p, scaled, TRUE))
  <2>1. MayDraw(s, hb, b, p, scaled, TRUE)
    BY <1>0 DEF MayDraw, PairReady
  <2>. QED
    BY <1>0, <2>1, VertexGood
<1>3. IsDrawn(s, Vertex(s, ha, a, p, scaled, TRUE))
  <2>1. MayDraw(s, ha, a, p, scaled, TRUE)
    BY <1>0 DEF MayDraw, PairReady
  <2>. QED
    BY <1>0, <2>1, VertexGood
<1>. QED
  BY <1>1, <1>2, <1>3

LEMMA RenderPairGood ==
  ASSUME NEW s, Good(s), NEW b \in Bitmaps, Additional[b] \in Bitmaps,
         NEW p \in Pages, NEW q \in Pages, NEW format, NEW scaled \in BOOLEAN
  PROVE  IsRendered(s, RenderPair(s, b, p, q, format, scaled))
<1> DEFINE a  == Additional[b]
           t1 == Setup(s, b)
           t  == Setup(t1, a)
           r  == Sized(t, b, scaled)
           u  == Resize(r, t.bh[a], scaled)
           v  == Vertex(u, t.bh[b], b, p, scaled, TRUE)
           w  == IF format = "DXT1" THEN Vertex(v, t.bh[b], b, q, scaled, TRUE) ELSE v
           x  == Vertex(w, t.bh[a], a, q, scaled, TRUE)
           y  == Vertex(x, t.bh[a], a, p, scaled, TRUE)
           Fits(z) == /\ PairReady(z, t.bh[b], b, t.bh[a], a, scaled)
                      /\ z.where = u.where /\ z.seq = u.seq
<1>0. /\ b \in Shown /\ b \notin RomFonts /\ a \in Shown /\ a \notin RomFonts
      /\ a \in Bitmaps /\ TRUE \in BOOLEAN
  BY HandleAssumption DEF Shown
<1>1. RenderPair(s, b, p, q, format, scaled) = y
  BY DEF RenderPair
<1> HIDE DEF a
<1>2. IsSetup(s, b, t1)
  BY <1>0, SetupGood
<1> HIDE DEF t1
<1>3. IsSetup(t1, a, t)
  BY <1>0, <1>2, SetupGood DEF IsSetup
<1> HIDE DEF t
<1>4. Ready(t, t.bh[a], a) /\ Ready(t, t.bh[b], b)
  <2>1. CASE a = b
    BY <1>3, <2>1 DEF IsSetup
  <2>2. CASE a # b
    <3>1. t.bh[b] = t1.bh[b] /\ Ready(t1, t.bh[b], b)
      BY <1>0, <1>2, <1>3, <2>2 DEF IsSetup
    <3>2. t.bh[b] = Scratch => Ready(t, t.bh[b], b)
      BY Basics DEF Ready
    <3>3. t.bh[b] # Scratch => Ready(t, t.bh[b], b)
      BY <1>0, <1>3, <3>1 DEF IsSetup, Keeps, Ready
    <3>. QED
      BY <1>3, <3>2, <3>3 DEF IsSetup
  <2>. QED
    BY <2>1, <2>2
<1>5. SizedFor(t, b, scaled, r)
  BY <1>3, <1>4, SizedGood DEF IsSetup
<1> HIDE DEF r
<1>6. Good(r) /\ Ready(r, t.bh[a], a) /\ Ready(r, t.bh[b], b)
  BY <1>0, <1>4, <1>5 DEF SizedFor, IsSized, Keeps, Ready
<1>7. IsSized(r, t.bh[a], scaled, u) /\ u.eng[t.bh[a]].scaled = scaled
  <2>1. t.bh[a] \in Handles /\ (t.bh[a] = Scratch \/ r.st.Info[t.bh[a]] \notin RomFonts)
    BY <1>0, <1>6 DEF Ready
  <2>. QED
    BY <1>6, <2>1, ResizeGood
<1> HIDE DEF u
<1>8. Good(u) /\ Ready(u, t.bh[a], a) /\ Ready(u, t.bh[b], b)
  BY <1>0, <1>6, <1>7 DEF IsSized, Keeps, Ready
<1>9. t.bh[b] # Scratch => u.eng[t.bh[b]].scaled = scaled
  BY <1>4, <1>5, <1>7 DEF SizedFor, IsSized, Ready
<1>10. Fits(u)
  BY <1>7, <1>8, <1>9 DEF PairReady
<1>a. ASSUME NEW z, Fits(z), NEW page \in Pages
      PROVE  /\ Fits(Vertex(z, t.bh[b], b, page, scaled, TRUE))
             /\ Fits(Vertex(z, t.bh[a], a, page, scaled, TRUE))
  <2> DEFINE hb == t.bh[b]
             ha == t.bh[a]
  <2>1. PairReady(z, hb, b, ha, a, scaled) /\ z.where = u.where /\ z.seq = u.seq
    BY <1>a
  <2> HIDE DEF hb, ha
  <2>2. /\ PairDrawn(z, Vertex(z, hb, b, page, scaled, TRUE), hb, b, ha, a, scaled)
        /\ PairDrawn(z, Vertex(z, ha, a, page, scaled, TRUE), hb, b, ha, a, scaled)
    BY <1>0, <1>a, <2>1, PairVertex
  <2>. QED
    BY <2>1, <2>2 DEF hb, ha, PairDrawn
<1> HIDE DEF Fits
<1>11. Fits(v)
  BY <1>10, <1>a
<1> HIDE DEF v
<1>12. Fits(w)
  BY <1>11, <1>a
<1> HIDE DEF w
<1>13. Fits(x)
  BY <1>12, <1>a
<1> HIDE DEF x
<1>14. Fits(y)
  BY <1>13, <1>a
<1> HIDE DEF y
<1>15. u.where = s.where /\ u.seq = s.seq
  BY <1>2, <1>3, <1>5, <1>7 DEF IsSetup, SizedFor, IsSized, Same
<1>. QED
  BY <1>1, <1>14, <1>15 DEF PairReady, IsRendered, Fits

(* A font is never resized, so that a text needs no size.                  *)
LEMMA RenderTextGood ==
  ASSUME NEW s, Good(s), NEW f \in RomFonts
  PROVE  LET t == Setup(s, f) IN IsRendered(s, Vertex(t, t.bh[f], f, 0, FALSE, FALSE))
<1> DEFINE t == Setup(s, f)
           h == t.bh[f]
           v == Vertex(t, h, f, 0, FALSE, FALSE)
<1>0. f \in Shown /\ 0 \in Pages /\ FALSE \in BOOLEAN /\ f # Nobody
  BY HandleAssumption DEF Shown
<1>1. IsSetup(s, f, t)
  BY <1>0, SetupGood
<1> HIDE DEF t
<1>2. Good(t) /\ Ready(t, h, f)
  BY <1>1 DEF IsSetup
<1>3. h # Scratch => t.eng[h].scaled = FALSE
  <2>1. t.eng[h].scaled \in BOOLEAN
    BY <1>2, RecordParts DEF Good, Ready, Engines
  <2>2. h # Scratch => ~t.eng[h].scaled
    BY <1>0, <1>2 DEF Good, Ready, Matches
  <2>. QED
    BY <2>1, <2>2
<1>4. h = Scratch => ScratchReady(t, f, FALSE)
  BY <1>1 DEF IsSetup
<1>5. MayDraw(t, h, f, 0, FALSE, FALSE)
  BY <1>2, <1>3, <1>4 DEF MayDraw
<1>6. IsDrawn(t, v)
  BY <1>0, <1>5, VertexGood
<1> HIDE DEF v
<1>7. IsRendered(s, v)
  BY <1>1, <1>6 DEF IsSetup, Same, IsDrawn, IsRendered
<1>. QED
  BY <1>7 DEF v, t

(***************************************************************************)
(* The steps.                                                              *)
(***************************************************************************)
LEMMA NowGood ==
  ASSUME Typed, Sound, phase = "render",
         NEW places \in [Bitmaps -> Places], NEW seqs \in [Bitmaps -> {0, 1}]
  PROVE  LET s == Now(places, seqs) IN Good(s) /\ s.where = places /\ s.seq = seqs
<1>1. handleState \in States /\ bitmapHandle \in [Shown -> 0 .. HandleNb]
  BY DEF Typed, TypeOK, States, Someone, Places, Invalid
<1>2. list \in Engines /\ drawn \in SUBSET Draws
  BY DEF Typed
<1>3. Now(places, seqs) \in Records
  BY <1>1, <1>2 DEF Now, Records
<1>4. Matches(handleState, list) /\ Taken(handleState, drawn) /\ Right(drawn)
  BY DEF Sound
<1>. QED
  BY <1>3, <1>4 DEF Now, Good

LEMMA TakeSound ==
  ASSUME Typed, phase = "render", NEW s, Good(s), Take(s)
  PROVE  Typed' /\ Sound'
<1>1. /\ s \in Records /\ Matches(s.st, s.eng) /\ Taken(s.st, s.drawn)
      /\ s.ok => Right(s.drawn)
  BY DEF Good
<1>2. /\ handleState' = s.st /\ bitmapHandle' = s.bh /\ list' = s.eng
      /\ where' = s.where /\ gpuSeq' = s.seq /\ drawn' = s.drawn /\ engine' = engine
      /\ phase' = IF s.ok THEN phase ELSE "crashed"
  BY DEF Take
<1>3. /\ s.st \in States /\ s.bh \in [Shown -> 0 .. HandleNb] /\ s.eng \in Engines
      /\ s.where \in [Bitmaps -> Places] /\ s.seq \in [Bitmaps -> {0, 1}]
      /\ s.drawn \in SUBSET Draws
  BY <1>1 DEF Records
<1>4. Typed'
  BY <1>2, <1>3 DEF Typed, TypeOK, States, Someone, Places, Invalid
<1>5. Sound'
  BY <1>1, <1>2 DEF Sound
<1>. QED
  BY <1>4, <1>5

(* Loading bitmaps leaves every bitmap somewhere.                          *)
LEMMA LoadsTyped ==
  ASSUME Typed, NEW bs, NEW places \in Loads(bs)
  PROVE  places \in [Bitmaps -> Places] /\ SeqsAfter(places) \in [Bitmaps -> {0, 1}]
<1>1. places \in [Bitmaps -> Places]
  BY DEF Loads, Places
<1>2. gpuSeq \in [Bitmaps -> {0, 1}]
  BY DEF Typed, TypeOK
<1>3. \A b \in Bitmaps : 1 - gpuSeq[b] \in {0, 1}
  BY <1>2
<1>. QED
  BY <1>1, <1>2, <1>3 DEF SeqsAfter

LEMMA RenderBitmapSound ==
  ASSUME Typed, Sound, NEW b \in Bitmaps, NEW p \in Pages, NEW scaled \in BOOLEAN,
         RenderBitmap(b, p, scaled)
  PROVE  Typed' /\ Sound'
<1>1. phase = "render"
  BY DEF RenderBitmap
<1>2. PICK places \in Loads({b, Additional[b]} \ {Nobody}) :
        LET s == Now(places, SeqsAfter(places))
        IN  \/ Take(RenderOne(s, b, p, scaled))
            \/ /\ Additional[b] # Nobody
               /\ \E q \in Pages, format \in {"DXT1", "DXT1L2"} :
                    Take(RenderPair(s, b, p, q, format, scaled))
  BY DEF RenderBitmap
<1> DEFINE s == Now(places, SeqsAfter(places))
<1>3. Good(s)
  <2>1. places \in [Bitmaps -> Places] /\ SeqsAfter(places) \in [Bitmaps -> {0, 1}]
    BY LoadsTyped
  <2>. QED
    BY <1>1, <2>1, NowGood
<1>4. PICK t : /\ Take(t)
               /\ \/ /\ Additional[b] # Nobody
                     /\ \E q \in Pages, format \in {"DXT1", "DXT1L2"} :
                          t = RenderPair(s, b, p, q, format, scaled)
                  \/ t = RenderOne(s, b, p, scaled)
  BY <1>2
<1> HIDE DEF s
<1>5. Good(t)
  <2>1. CASE t = RenderOne(s, b, p, scaled)
    BY <1>3, <2>1, RenderOneGood DEF IsRendered
  <2>2. ASSUME Additional[b] # Nobody, NEW q \in Pages, NEW format,
               t = RenderPair(s, b, p, q, format, scaled)
        PROVE  Good(t)
    <3>1. Additional[b] \in Bitmaps
      BY <2>2, HandleAssumption
    <3>. QED
      BY <1>3, <2>2, <3>1, RenderPairGood DEF IsRendered
  <2>. QED
    BY <1>4, <2>1, <2>2
<1>. QED
  BY <1>1, <1>4, <1>5, TakeSound

LEMMA RenderTextSound ==
  ASSUME Typed, Sound, NEW f \in RomFonts, RenderText(f)
  PROVE  Typed' /\ Sound'
<1> DEFINE s == Now(where, gpuSeq)
           t == Setup(s, f)
           v == Vertex(t, t.bh[f], f, 0, FALSE, FALSE)
<1>1. phase = "render" /\ Take(v)
  BY DEF RenderText
<1>2. where \in [Bitmaps -> Places] /\ gpuSeq \in [Bitmaps -> {0, 1}]
  BY DEF Typed, TypeOK, Places
<1>3. Good(s)
  BY <1>1, <1>2, NowGood
<1> HIDE DEF s
<1>4. Good(v)
  <2>1. IsRendered(s, v)
    BY <1>3, RenderTextGood
  <2>. QED
    BY <2>1 DEF IsRendered
<1>. QED
  BY <1>1, <1>4, TakeSound

(* At the start of a frame nothing is drawn yet, and the handles that were *)
(* not used lately become free.                                            *)
LEMMA FrameStartSound ==
  ASSUME Typed, Sound, FrameStart
  PROVE  Typed' /\ Sound'
<1> DEFINE use2 == [h \in Handles |-> Kept(handleState.Use[h])]
<1>1. /\ phase = "shown" /\ phase' = "update" /\ list' = engine /\ drawn' = {}
      /\ handleState' = [handleState EXCEPT !.Use = use2]
      /\ UNCHANGED <<bitmapHandle, where, gpuSeq, engine>>
  BY DEF FrameStart
<1>2. handleState \in States
  BY DEF Typed, TypeOK, States, Someone, Places, Invalid
<1>3. use2 \in [Handles -> 0 .. 2]
  BY <1>2 DEF States, Kept
<1> HIDE DEF use2
<1>4. handleState' \in States
  BY <1>1, <1>2, <1>3, StateWith
<1>5. /\ handleState'.Info = handleState.Info /\ handleState'.Address = handleState.Address
      /\ handleState'.Resized = handleState.Resized /\ handleState'.Page = handleState.Page
  BY <1>1, <1>2 DEF States
<1>6. Typed'
  BY <1>1, <1>4 DEF Typed, TypeOK, States, Someone, Places, Invalid
<1>7. Matches(handleState, engine)
  BY <1>1 DEF Sound
<1>8. Matches(handleState', list')
  BY <1>1, <1>5, <1>7 DEF Matches
<1>9. Sound'
  BY <1>1, <1>8 DEF Sound, Taken, Right
<1>. QED
  BY <1>6, <1>9

(* A frame that is lost takes every record of a handle with it.            *)
LEMMA ResetMatches ==
  ASSUME NEW e
  PROVE  Reset \in States /\ Matches(Reset, e)
<1>1. Reset \in States
  BY Basics DEF Reset, States, Someone, Places, Invalid
<1>2. Matches(Reset, e)
  BY Basics DEF Reset, Matches
<1>. QED
  BY <1>1, <1>2

LEMMA InitSound ==
  ASSUME Init
  PROVE  Typed /\ Sound
<1>1. Reset \in States /\ Matches(Reset, engine) /\ Matches(Reset, list)
  BY ResetMatches
<1>2. Unset \in [of : Someone, source : Someone \X Places \X Pages, scaled : BOOLEAN]
  BY Basics DEF Unset, Someone
<1>3. list \in Engines /\ engine \in Engines
  BY <1>2 DEF Init, Engines
<1>4. bitmapHandle \in [Shown -> 0 .. HandleNb]
  BY HandleAssumption DEF Init
<1>5. Typed
  BY <1>1, <1>3, <1>4 DEF Init, Typed, TypeOK, States, Someone, Places, Invalid
<1>6. Sound
  BY <1>1 DEF Init, Sound, Taken, Right
<1>. QED
  BY <1>5, <1>6

LEMMA NextSound ==
  ASSUME Typed, Sound, [Next]_vars
  PROVE  Typed' /\ Sound'
<1>1. CASE FrameStart
  BY <1>1, FrameStartSound
<1>2. CASE Render
  <2>1. Typed'
    BY <1>2 DEF Render, Typed, TypeOK
  <2>2. Sound'
    BY <1>2 DEF Render, Sound
  <2>. QED
    BY <2>1, <2>2
<1>3. CASE Swap
  <2>1. Typed'
    BY <1>3 DEF Swap, Typed, TypeOK
  <2>2. Sound'
    BY <1>3 DEF Swap, Sound, Taken, Right
  <2>. QED
    BY <2>1, <2>2
<1>4. CASE Lose
  <2>1. /\ phase' = "shown" /\ handleState' = Reset /\ drawn' = {}
        /\ engine' \in {engine, list} /\ list' = engine'
        /\ UNCHANGED <<bitmapHandle, where, gpuSeq>>
    BY <1>4 DEF Lose
  <2>2. Reset \in States /\ Matches(Reset, engine')
    BY ResetMatches
  <2>3. Typed'
    BY <2>1, <2>2 DEF Typed, TypeOK, States, Someone, Places, Invalid
  <2>4. Sound'
    BY <2>1, <2>2 DEF Sound, Taken, Right
  <2>. QED
    BY <2>3, <2>4
<1>5. ASSUME NEW b \in Bitmaps, Free(b)
      PROVE  Typed' /\ Sound'
  <2>1. Typed'
    BY <1>5 DEF Free, Typed, TypeOK
  <2>2. Sound'
    BY <1>5 DEF Free, Sound
  <2>. QED
    BY <2>1, <2>2
<1>6. ASSUME NEW b \in Bitmaps, NEW addr \in Addresses, Move(b, addr)
      PROVE  Typed' /\ Sound'
  <2>1. Typed'
    BY <1>6 DEF Move, Typed, TypeOK
  <2>2. Sound'
    BY <1>6 DEF Move, Sound
  <2>. QED
    BY <2>1, <2>2
<1>7. CASE UNCHANGED vars
  <2>1. Typed'
    BY <1>7 DEF vars, Typed, TypeOK
  <2>2. Sound'
    BY <1>7 DEF vars, Sound
  <2>. QED
    BY <2>1, <2>2
<1>8. ASSUME NEW b \in Bitmaps, NEW p \in Pages, NEW scaled \in BOOLEAN,
             RenderBitmap(b, p, scaled)
      PROVE  Typed' /\ Sound'
  BY <1>8, RenderBitmapSound
<1>9. ASSUME NEW f \in RomFonts, RenderText(f)
      PROVE  Typed' /\ Sound'
  BY <1>9, RenderTextSound
<1>. QED
  BY <1>1, <1>2, <1>3, <1>4, <1>5, <1>6, <1>7, <1>8, <1>9 DEF Next

LEMMA Invariant == Spec => [](Typed /\ Sound)
<1>1. Init => Typed /\ Sound
  BY InitSound
<1>2. Typed /\ Sound /\ [Next]_vars => (Typed /\ Sound)'
  BY NextSound
<1>. QED
  BY <1>1, <1>2, PTL DEF Spec

(***************************************************************************)
(* What the runs check, for every instance.                                *)
(***************************************************************************)
(* The handle cache keeps to its types whatever bitmaps and texts are      *)
(* drawn, moved, freed, loaded anew and lost with a frame.                 *)
THEOREM TypeCorrect == Spec => []TypeOK
<1>1. Typed => TypeOK
  BY DEF Typed
<1>. QED
  BY <1>1, Invariant, PTL

(* Every draw shows its bitmap as it should, unless a bitmap and its       *)
(* additional one share the scratch handle: StillSet skips a set-up only   *)
(* when nothing happened to the handle since the last one.                 *)
THEOREM EveryDrawRight == Spec => []DrawnRight
<1>1. Sound => DrawnRight
  BY DEF Sound, Right, DrawnRight
<1>. QED
  BY <1>1, Invariant, PTL

(* A handle that was drawn through is not given to another bitmap before   *)
(* the frame is shown, however many bitmaps want one.                      *)
THEOREM DrawnHandleStays == Spec => []HandleStaysTaken
<1>1. Sound => HandleStaysTaken
  BY DEF Sound, Taken, HandleStaysTaken
<1>. QED
  BY <1>1, Invariant, PTL
=============================================================================
