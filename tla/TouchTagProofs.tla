-------------------------- MODULE TouchTagProofs --------------------------
(***************************************************************************)
(* Proofs about TouchTag, for any number of widgets and of tags.           *)
(***************************************************************************)
EXTENDS TouchTag, WellFoundedInduction, TLAPS

(***************************************************************************)
(* The inductive invariant.                                                *)
(*                                                                         *)
(* A tag stands for the widget it was found on as long as the widget keeps *)
(* it.  What is remembered of a touch may be of a tag that has been given  *)
(* up since, and then freed has it: the memory of freed goes no further    *)
(* back than the last poll without a touch, and at a poll the screen and   *)
(* REG_TOUCH_TAG are no older than the last frame.                         *)
(***************************************************************************)
StandsFor(t, p)  == t \in Tags => p \in Contexts /\ tag[p] = t
StoodFor(t, p)   == t \in freed \/ StandsFor(t, p)

(* What a widget was told Down is over at the latest when it is updated.   *)
Owners == \A c \in Contexts : tag[c] # 0 => handlers[tag[c]] = c

Held ==
  /\ \A c \in Contexts : set[c] => tag[c] # 0
  /\ pc = "poll" => toUpdate = {}
  /\ pc # "tag" => \A c \in Contexts \ toUpdate : set[c] => tag[c] = tagDown
  /\ tagDown = 0 <=> gpuTag = 0

Remembered ==
  /\ StoodFor(gpuTag, lastOn) /\ StoodFor(tagDown, downOn) /\ StoodFor(tagUp, upOn)
  /\ \A c \in Contexts : StoodFor(screen[c], c)

(* At a poll, and between its two reads, nothing is remembered wrongly.    *)
Fresh ==
  /\ pc # "poll" => polled
  /\ pc = "tag" \/ ~polled =>
       /\ StoodFor(regTag, sensed)
       /\ \A c \in Contexts : StandsFor(screen[c], c)

Inv == Owners /\ Held /\ Remembered /\ Fresh /\ EventsAreOwn

(***************************************************************************)
(* The first free tag.                                                     *)
(***************************************************************************)
LEMMA MinIsLeast ==
  ASSUME NEW T \in SUBSET Nat, T # {}
  PROVE  Min(T) \in T /\ \A y \in T : Min(T) <= y
<1> DEFINE R == {ss \in Nat \X Nat : ss[1] < ss[2]}
<1>1. IsWellFoundedOn(R, Nat)
  BY NatLessThanWellFounded DEF OpToRel
<1>2. \E x \in T : \A y \in T : ~(<<y, x>> \in R)
  <2> HIDE DEF R
  <2>. QED
    BY <1>1, WFMin
<1>3. PICK x \in T : \A y \in T : ~(<<y, x>> \in R)
  BY <1>2
<1>4. ASSUME NEW y \in T
      PROVE  x <= y
  <2>1. ~(y < x)
    BY <1>3
  <2>. QED
    BY <2>1
<1>. QED
  BY <1>4 DEF Min

HandlersType == [Tags -> Contexts \cup {Nobody}]

LEMMA FreeTagIsFree ==
  ASSUME NEW hs \in HandlersType
  PROVE  FreeTag(hs) = 0 \/ (FreeTag(hs) \in Tags /\ hs[FreeTag(hs)] = Nobody)
<1> DEFINE free == {t \in Tags : hs[t] = Nobody}
<1>1. free \in SUBSET Nat
  BY TouchAssumption DEF Tags
<1>2. free # {} => Min(free) \in free
  BY <1>1, MinIsLeast
<1>3. FreeTag(hs) = IF free = {} THEN 0 ELSE Min(free)
  BY DEF FreeTag
<1> HIDE DEF free
<1>4. FreeTag(hs) = 0 \/ FreeTag(hs) \in free
  BY <1>2, <1>3
<1>. QED
  BY <1>4 DEF free

(* Taking a free tag disturbs no other.                                    *)
LEMMA HoldFreeTag ==
  ASSUME NEW hs \in HandlersType, NEW c \in Contexts
  PROVE  LET t  == FreeTag(hs)
             h2 == Hold(hs, c, t)
         IN  /\ t \in 0 .. NTags /\ h2 \in HandlersType
             /\ t # 0 => h2[t] = c
             /\ \A u \in Tags : hs[u] # Nobody => h2[u] = hs[u]
<1>1. FreeTag(hs) = 0 \/ (FreeTag(hs) \in Tags /\ hs[FreeTag(hs)] = Nobody)
  BY FreeTagIsFree
<1>. QED
  BY <1>1, TouchAssumption DEF Hold, HandlersType, Tags

LEMMA ReleaseTag ==
  ASSUME handlers \in HandlersType, NEW c \in Contexts, tag[c] \in 0 .. NTags
  PROVE  /\ Released(c) \in HandlersType
         /\ \A u \in Tags : handlers[u] # c => Released(c)[u] = handlers[u]
BY DEF Released, HandlersType

(***************************************************************************)
(* Types.                                                                  *)
(***************************************************************************)
Holders == /\ tag \in [Contexts -> 0 .. NTags] /\ set \in [Contexts -> BOOLEAN]
           /\ handlers \in HandlersType

Polls == /\ gpuTag \in 0 .. NonTag /\ tagDown \in 0 .. NonTag /\ tagUp \in 0 .. NonTag
         /\ suppress \in BOOLEAN /\ polled \in BOOLEAN
         /\ pc \in {"poll", "tag", "update"} /\ toUpdate \subseteq Contexts

Screen == /\ regTag \in 0 .. NonTag
          /\ finger \in Places /\ screen \in [Contexts -> 1 .. NonTag]

LEMMA TypeParts == TypeOK <=> Holders /\ Polls /\ Screen
BY DEF TypeOK, Holders, Polls, Screen, HandlersType

LEMMA HoldersStep ==
  ASSUME Holders, [Next]_vars
  PROVE  Holders'
<1>1. ASSUME NEW c \in Contexts, End(c) \/ Start(c)
      PROVE  Holders'
  <2>1. tag[c] \in 0 .. NTags /\ Released(c) \in HandlersType
    BY ReleaseTag DEF Holders
  <2>2. CASE End(c)
    BY <2>1, <2>2, TouchAssumption DEF End, Holders
  <2>3. CASE Start(c)
    <3> DEFINE t == FreeTag(Released(c))
    <3>1. t \in 0 .. NTags /\ Hold(Released(c), c, t) \in HandlersType
      BY <2>1, HoldFreeTag
    <3>2. tag' = [tag EXCEPT ![c] = t] /\ handlers' = Hold(Released(c), c, t)
          /\ set' \in {[set EXCEPT ![c] = FALSE], set}
      BY <2>3 DEF Start
    <3> HIDE DEF t
    <3>. QED
      BY <3>1, <3>2 DEF Holders
  <2>. QED
    BY <1>1, <2>2, <2>3
<1>2. ASSUME NEW c \in Contexts, Update(c)
      PROVE  Holders'
  <2>1. PICK t \in {tag[c], FreeTag(handlers)} :
          /\ tag' = [tag EXCEPT ![c] = t] /\ handlers' = Hold(handlers, c, t)
          /\ set' \in {[set EXCEPT ![c] = FALSE], [set EXCEPT ![c] = TRUE], set}
    BY <1>2 DEF Update
  <2>2. t \in 0 .. NTags /\ Hold(handlers, c, t) \in HandlersType
    BY HoldFreeTag DEF Holders, Hold, HandlersType, Tags
  <2>. QED
    BY <2>1, <2>2 DEF Holders
<1>3. CASE \/ \E p \in Places : Touch(p)
           \/ Scan \/ PollSkipped \/ PollNoTouch \/ PollTouch \/ PollTag
           \/ SuppressCurrentTags \/ Swap \/ Refuse \/ UNCHANGED vars
  BY <1>3 DEF Holders, Touch, Scan, PollSkipped, PollNoTouch, PollTouch, PollTag, Polled,
              SuppressCurrentTags, Swap, Refuse, vars, statics
<1>. QED
  BY <1>1, <1>2, <1>3 DEF Next

LEMMA TagUnderTyped == Screen => \A p \in Places : TagUnder(p) \in 0 .. NonTag
BY TouchAssumption DEF Screen, Places, TagUnder, NonTag

LEMMA PollsStep ==
  ASSUME Polls, Holders, Screen, [Next]_vars
  PROVE  Polls'
<1>0. 0 \in 0 .. NonTag /\ NonTag \in 0 .. NonTag
  BY TouchAssumption DEF NonTag
<1>1. ASSUME NEW t \in 0 .. NonTag, NEW p, Record(t, p)
      PROVE  /\ gpuTag' \in 0 .. NonTag /\ tagDown' \in 0 .. NonTag /\ tagUp' \in 0 .. NonTag
             /\ suppress' \in BOOLEAN
  BY <1>0, <1>1 DEF Record, Polls
<1>2. CASE PollNoTouch
  BY <1>0, <1>1, <1>2 DEF PollNoTouch, Polled, Polls
<1>3. CASE PollTag
  <2>1. PICK t \in {gpuTag, regTag, NonTag}, p \in {lastOn, sensed} : Record(t, p)
    BY <1>3 DEF PollTag
  <2>2. t \in 0 .. NonTag
    BY <1>0, <2>1 DEF Polls, Screen
  <2>. QED
    BY <1>1, <1>3, <2>1, <2>2 DEF PollTag, Polled, Polls
<1>4. CASE \/ \E p \in Places : Touch(p)
           \/ Scan \/ PollSkipped \/ PollTouch \/ SuppressCurrentTags
           \/ Swap \/ Refuse \/ UNCHANGED vars
  BY <1>4 DEF Polls, Touch, Scan, PollSkipped, PollTouch, Polled, SuppressCurrentTags,
              Swap, Refuse, vars, statics
<1>5. ASSUME NEW c \in Contexts, Start(c) \/ End(c) \/ Update(c)
      PROVE  Polls'
  BY <1>5 DEF Polls, Start, End, Update, AppStep
<1>. QED
  BY <1>2, <1>3, <1>4, <1>5 DEF Next

LEMMA ScreenStep ==
  ASSUME Screen, Holders, [Next]_vars
  PROVE  Screen'
<1>1. CASE Scan
  BY <1>1, TagUnderTyped DEF Screen, Scan, Sense
<1>2. CASE Swap
  <2>1. \A c \in Contexts : TagOf(c) \in 1 .. NonTag
    BY TouchAssumption DEF TagOf, Holders, NonTag
  <2>2. NonTag \in 1 .. NonTag
    BY TouchAssumption DEF NonTag
  <2>3. screen' \in [Contexts -> 1 .. NonTag]
    BY <1>2, <2>1, <2>2 DEF Swap
  <2>. QED
    BY <1>2, <2>3, TagUnderTyped DEF Screen, Swap, Sense
<1>3. CASE \E p \in Places : Touch(p)
  BY <1>3 DEF Screen, Touch
<1>4. CASE \/ PollSkipped \/ PollNoTouch \/ PollTouch \/ PollTag
           \/ SuppressCurrentTags \/ Refuse \/ UNCHANGED vars
  BY <1>4 DEF Screen, PollSkipped, PollNoTouch, PollTouch, PollTag, Polled,
              SuppressCurrentTags, Refuse, vars, engine
<1>5. ASSUME NEW c \in Contexts, Start(c) \/ End(c) \/ Update(c)
      PROVE  Screen'
  BY <1>5 DEF Screen, Start, End, Update, AppStep, engine
<1>. QED
  BY <1>1, <1>2, <1>3, <1>4, <1>5 DEF Next

(* The variables keep their types.                                         *)
THEOREM TypeCorrect == Spec => []TypeOK
<1>1. Init => TypeOK
  <2>1. Init => Holders
    BY TouchAssumption DEF Init, Holders, HandlersType
  <2>2. Init => Polls
    <3>1. 0 \in 0 .. NonTag
      BY TouchAssumption DEF NonTag
    <3>. QED
      BY <3>1 DEF Init, Polls
  <2>3. Init => Screen
    BY TouchAssumption DEF Init, Screen, NonTag, Places
  <2>. QED
    BY <2>1, <2>2, <2>3, TypeParts
<1>2. TypeOK /\ [Next]_vars => TypeOK'
  <2> SUFFICES ASSUME TypeOK, [Next]_vars PROVE TypeOK'
    OBVIOUS
  <2>1. Holders' /\ Polls' /\ Screen'
    BY TypeParts, HoldersStep, PollsStep, ScreenStep
  <2>. QED
    BY <2>1 DEF TypeOK, Holders, Polls, Screen, HandlersType
<1>. QED
  BY <1>1, <1>2, PTL DEF Spec

(***************************************************************************)
(* What the application does: a widget ends, starts or is updated.         *)
(***************************************************************************)
AppChange(c) == Start(c) \/ End(c) \/ Update(c)

(* Only c's tag changes, and the tag it had is freed; the tag it gets is   *)
(* held by no other.                                                       *)
LEMMA TagChange ==
  ASSUME TypeOK, Owners, NEW c \in Contexts, AppChange(c)
  PROVE  /\ \A d \in Contexts \ {c} : tag'[d] = tag[d]
         /\ tag'[c] = tag[c] \/ tag[c] = 0 \/ tag[c] \in freed'
         /\ freed \subseteq freed'
         /\ Owners'
         /\ Update(c) => UNCHANGED freed
<1> USE DEF AppChange
<1>1. Holders /\ tag[c] \in 0 .. NTags /\ handlers \in HandlersType
  BY TypeParts DEF Holders
<1>2. /\ Released(c) \in HandlersType
      /\ \A u \in Tags : handlers[u] # c => Released(c)[u] = handlers[u]
  BY <1>1, ReleaseTag
<1>3. PICK t \in 0 .. NTags :
         /\ tag' = [tag EXCEPT ![c] = t]
         /\ t # 0 => handlers'[t] = c
         /\ \A u \in Tags : handlers[u] \notin {c, Nobody} => handlers'[u] = handlers[u]
         /\ t = tag[c] \/ tag[c] = 0 \/ tag[c] \in freed'
         /\ freed \subseteq freed'
  <2>1. CASE Start(c)
    <3>1. /\ FreeTag(Released(c)) \in 0 .. NTags
          /\ FreeTag(Released(c)) # 0 =>
               Hold(Released(c), c, FreeTag(Released(c)))[FreeTag(Released(c))] = c
          /\ \A u \in Tags : Released(c)[u] # Nobody =>
               Hold(Released(c), c, FreeTag(Released(c)))[u] = Released(c)[u]
      BY <1>2, HoldFreeTag
    <3>2. /\ tag' = [tag EXCEPT ![c] = FreeTag(Released(c))]
          /\ handlers' = Hold(Released(c), c, FreeTag(Released(c)))
          /\ freed' = freed \cup {tag[c]}
      BY <2>1 DEF Start
    <3>3. \A u \in Tags : handlers[u] \notin {c, Nobody} => handlers'[u] = handlers[u]
      BY <1>2, <3>1, <3>2
    <3>. QED
      BY <3>1, <3>2, <3>3
  <2>2. CASE End(c)
    <3>1. /\ tag' = [tag EXCEPT ![c] = 0] /\ handlers' = Released(c)
          /\ freed' = freed \cup {tag[c]}
      BY <2>2 DEF End
    <3>2. 0 \in 0 .. NTags
      BY TouchAssumption
    <3>. QED
      BY <1>2, <3>1, <3>2
  <2>3. CASE Update(c)
    <3> DEFINE t == IF Owns(c) THEN tag[c] ELSE FreeTag(handlers)
    <3>1. /\ tag' = [tag EXCEPT ![c] = t] /\ handlers' = Hold(handlers, c, t) /\ freed' = freed
      BY <2>3 DEF Update
    <3>2. tag[c] # 0 => Owns(c)
      BY DEF Owners, Owns
    <3>3. CASE Owns(c)
      <4>1. t = tag[c] /\ t \in Tags /\ handlers' = handlers
        BY <1>1, <3>1, <3>3 DEF Owns, Hold, HandlersType, Tags
      <4> HIDE DEF t
      <4>. QED
        BY <1>1, <3>1, <3>3, <4>1 DEF Owns
    <3>4. CASE ~Owns(c)
      <4>1. t = FreeTag(handlers) /\ tag[c] = 0
        BY <3>2, <3>4
      <4>2. /\ t \in 0 .. NTags /\ (t # 0 => handlers'[t] = c)
            /\ \A u \in Tags : handlers[u] # Nobody => handlers'[u] = handlers[u]
        BY <1>1, <3>1, <4>1, HoldFreeTag
      <4> HIDE DEF t
      <4>. QED
        BY <3>1, <4>1, <4>2
    <3>. QED
      BY <3>3, <3>4
  <2>. QED
    BY <2>1, <2>2, <2>3
<1>4. tag'[c] = t /\ \A d \in Contexts \ {c} : tag'[d] = tag[d]
  BY <1>1, <1>3 DEF Holders
<1>5. Owners'
  <2>1. ASSUME NEW d \in Contexts, d # c, tag[d] # 0
        PROVE  handlers'[tag[d]] = d
    <3>1. tag[d] \in Tags /\ handlers[tag[d]] = d
      BY <1>1, <2>1 DEF Holders, Owners, Tags
    <3>. QED
      BY <1>3, <2>1, <3>1, TouchAssumption
  <2>. QED
    BY <1>3, <1>4, <2>1 DEF Owners
<1>6. Update(c) => UNCHANGED freed
  BY DEF Update
<1>. QED
  BY <1>3, <1>4, <1>5, <1>6

LEMMA OwnersStep ==
  ASSUME TypeOK, Owners, [Next]_vars
  PROVE  Owners'
<1>1. ASSUME NEW c \in Contexts, Start(c) \/ End(c) \/ Update(c)
      PROVE  Owners'
  BY <1>1, TagChange DEF AppChange
<1>2. CASE \/ \E p \in Places : Touch(p)
           \/ Scan \/ PollSkipped \/ PollNoTouch \/ PollTouch \/ PollTag
           \/ SuppressCurrentTags \/ Swap \/ Refuse \/ UNCHANGED vars
  BY <1>2 DEF Owners, Touch, Scan, PollSkipped, PollNoTouch, PollTouch, PollTag, Polled,
              SuppressCurrentTags, Swap, Refuse, vars, statics
<1>. QED
  BY <1>1, <1>2 DEF Next

LEMMA HeldStep ==
  ASSUME TypeOK, Owners, Held, [Next]_vars
  PROVE  Held'
<1>0. Holders /\ Polls
  BY TypeParts
<1>1. ASSUME NEW c \in Contexts, Start(c) \/ End(c) \/ Update(c)
      PROVE  Held'
  <2>1. /\ pc = "update" /\ pc' = "update" /\ toUpdate' = toUpdate \ {c}
        /\ UNCHANGED <<gpuTag, tagDown>>
    BY <1>1 DEF Start, End, Update, AppStep
  <2>2. \A d \in Contexts \ {c} : tag'[d] = tag[d] /\ set'[d] = set[d]
    <3>1. set' = set \/ \E b \in BOOLEAN : set' = [set EXCEPT ![c] = b]
      BY <1>1 DEF Start, End, Update
    <3>. QED
      BY <1>0, <1>1, <3>1, TagChange DEF AppChange, Holders
  <2>3. set'[c] => tag'[c] # 0 /\ tag'[c] = tagDown
    <3>1. CASE Start(c) \/ End(c)
      BY <1>0, <3>1 DEF Start, End, Held, Holders
    <3>2. CASE Update(c)
      <4> DEFINE t == IF Owns(c) THEN tag[c] ELSE FreeTag(handlers)
      <4>1. tag'[c] = t
        BY <1>0, <3>2 DEF Update, Holders
      <4>2. set[c] => Owns(c) /\ t # 0
        BY DEF Held, Owners, Owns
      <4>3. \/ set' = [set EXCEPT ![c] = FALSE]
            \/ t # 0 /\ tagDown = t
            \/ set' = set /\ t = 0
            \/ set' = set /\ (set[c] <=> (tagDown = t))
        BY <1>0, <3>2 DEF Update, Holders
      <4> HIDE DEF t
      <4>. QED
        BY <1>0, <4>1, <4>2, <4>3 DEF Holders
    <3>. QED
      BY <1>1, <3>1, <3>2
  <2>. QED
    BY <2>1, <2>2, <2>3 DEF Held
<1>2. ASSUME NEW t, NEW p, Record(t, p), Polled
      PROVE  Held'
  <2>1. /\ pc' = "update" /\ UNCHANGED <<tag, set>>
        /\ toUpdate' = {c \in Contexts : set[c]}
        /\ (tagDown' = 0 <=> gpuTag' = 0)
    BY <1>2 DEF Polled, Record
  <2>. QED
    BY <2>1 DEF Held
<1>3. CASE PollNoTouch \/ PollTag
  BY <1>2, <1>3 DEF PollNoTouch, PollTag
<1>4. CASE PollSkipped
  BY <1>4 DEF PollSkipped, Polled, Held
<1>5. CASE \/ \E p \in Places : Touch(p)
           \/ Scan \/ PollTouch \/ SuppressCurrentTags \/ UNCHANGED vars
  BY <1>5 DEF Held, Touch, Scan, PollTouch, SuppressCurrentTags, vars, statics
<1>6. CASE Swap \/ Refuse
  BY <1>6 DEF Held, Swap, Refuse, statics
<1>. QED
  BY <1>1, <1>3, <1>4, <1>5, <1>6 DEF Next

LEMMA RememberedStep ==
  ASSUME TypeOK, Owners, Remembered, Fresh, [Next]_vars
  PROVE  Remembered'
<1>0. Holders /\ Polls /\ Screen
  BY TypeParts
<1>1. ASSUME NEW c \in Contexts, Start(c) \/ End(c) \/ Update(c)
      PROVE  Remembered'
  <2>1. UNCHANGED <<gpuTag, tagDown, tagUp, lastOn, downOn, upOn, screen>>
    BY <1>1 DEF Start, End, Update, AppStep, ons, engine
  <2>2. /\ \A d \in Contexts \ {c} : tag'[d] = tag[d]
        /\ tag'[c] = tag[c] \/ tag[c] = 0 \/ tag[c] \in freed'
        /\ freed \subseteq freed'
    BY <1>1, TagChange DEF AppChange
  <2>3. ASSUME NEW t, NEW p, StoodFor(t, p)
        PROVE  t \in freed' \/ (t \in Tags => p \in Contexts /\ tag'[p] = t)
    BY <2>2, <2>3 DEF StoodFor, StandsFor, Tags
  <2>. QED
    BY <2>1, <2>3 DEF Remembered, StoodFor, StandsFor
<1>2. ASSUME NEW t, NEW p, Record(t, p), StoodFor(t, p), pc = "tag" \/ ~polled,
             UNCHANGED <<tag, screen>>
      PROVE  Remembered'
  <2>1. \A c \in Contexts : StandsFor(screen[c], c)
    BY <1>2 DEF Fresh
  <2>2. CASE t = 0 /\ gpuTag = 0
    <3>1. gpuTag' = 0 /\ tagDown' = 0 /\ tagUp' = 0
      BY <1>2, <2>2 DEF Record
    <3>. QED
      BY <1>2, <2>1, <3>1, TouchAssumption DEF Remembered, StoodFor, StandsFor, Tags
  <2>3. CASE t # 0 \/ gpuTag # 0
    <3>1. freed' = freed
      BY <1>2, <2>3 DEF Record
    <3>2. /\ gpuTag' = t /\ lastOn' = p
          /\ \/ tagDown' = 0
             \/ tagDown' = t /\ downOn' = p
             \/ tagDown' = tagDown /\ downOn' = downOn
          /\ \/ tagUp' = gpuTag /\ upOn' = lastOn
             \/ tagUp' = tagUp /\ upOn' = upOn
      BY <1>2 DEF Record
    <3>3. 0 \notin Tags
      BY TouchAssumption DEF Tags
    <3>. QED
      BY <1>2, <2>1, <3>1, <3>2, <3>3 DEF Remembered, StoodFor, StandsFor
  <2>. QED
    BY <2>2, <2>3
<1>3. CASE PollNoTouch
  <2>1. StoodFor(0, Off)
    BY TouchAssumption DEF StoodFor, StandsFor, Tags
  <2>. QED
    BY <1>2, <1>3, <2>1 DEF PollNoTouch, Polled, engine
<1>4. CASE PollTag
  <2>1. \A p : StoodFor(NonTag, p)
    BY TouchAssumption DEF StoodFor, StandsFor, Tags, NonTag
  <2>2. StoodFor(gpuTag, lastOn) /\ StoodFor(regTag, sensed)
    BY <1>4 DEF PollTag, Remembered, Fresh
  <2>3. \E t, p : Record(t, p) /\ StoodFor(t, p)
    BY <1>4, <2>1, <2>2 DEF PollTag
  <2>. QED
    BY <1>2, <1>4, <2>3 DEF PollTag, Polled, engine
<1>5. CASE Swap
  <2>1. \A c \in Contexts : screen'[c] \in {tag[c], NonTag} /\ (screen'[c] = tag[c] => tag[c] # 0)
    BY <1>5, TouchAssumption DEF Swap, TagOf, NonTag
  <2>2. \A c \in Contexts : (StandsFor(screen[c], c))'
    BY <1>5, <2>1, TouchAssumption DEF Swap, StandsFor, Tags, NonTag
  <2>. QED
    BY <1>5, <2>2 DEF Swap, Remembered, StoodFor, StandsFor, ons
<1>6. CASE \/ \E p \in Places : Touch(p)
           \/ Scan \/ PollSkipped \/ PollTouch \/ SuppressCurrentTags \/ Refuse
           \/ UNCHANGED vars
  BY <1>6 DEF Remembered, StoodFor, StandsFor, Touch, Scan, PollSkipped, PollTouch, Polled,
              SuppressCurrentTags, Refuse, vars, statics, engine, ons
<1>. QED
  BY <1>1, <1>3, <1>4, <1>5, <1>6 DEF Next

LEMMA SensedNow ==
  ASSUME TypeOK, Remembered
  PROVE  StoodFor(TagUnder(finger), finger)
<1>1. finger \in Contexts \cup {Bare, Off}
  BY DEF TypeOK, Places
<1>. QED
  BY <1>1, TouchAssumption DEF TagUnder, Remembered, StoodFor, StandsFor, Tags, NonTag

LEMMA FreshStep ==
  ASSUME TypeOK, Remembered, Fresh, [Next]_vars
  PROVE  Fresh'
<1>1. ASSUME NEW c \in Contexts, Start(c) \/ End(c) \/ Update(c)
      PROVE  Fresh'
  BY <1>1 DEF Fresh, Start, End, Update, AppStep
<1>2. CASE PollNoTouch \/ PollTag \/ PollSkipped
  BY <1>2 DEF Fresh, PollNoTouch, PollTag, PollSkipped, Polled
<1>3. CASE Scan
  BY <1>3, SensedNow DEF Scan, Sense, Fresh, StoodFor, StandsFor, statics
<1>4. CASE Swap
  <2>1. \A c \in Contexts : screen'[c] \in {tag[c], NonTag} /\ (screen'[c] = tag[c] => tag[c] # 0)
    BY <1>4, TouchAssumption DEF Swap, TagOf, NonTag
  <2>2. \A c \in Contexts : (StandsFor(screen[c], c))'
    BY <1>4, <2>1, TouchAssumption DEF Swap, StandsFor, Tags, NonTag
  <2>3. (StoodFor(regTag, sensed))'
    BY <1>4, SensedNow DEF Swap, Sense, StoodFor, StandsFor
  <2>. QED
    BY <1>4, <2>2, <2>3 DEF Swap, Fresh
<1>5. CASE \/ \E p \in Places : Touch(p)
           \/ PollTouch \/ SuppressCurrentTags \/ Refuse \/ UNCHANGED vars
  BY <1>5 DEF Fresh, StoodFor, StandsFor, Touch, PollTouch, SuppressCurrentTags, Refuse, vars,
              statics, engine
<1>. QED
  BY <1>1, <1>2, <1>3, <1>4, <1>5 DEF Next

LEMMA EventsStep ==
  ASSUME TypeOK, TypeOK', Owners, Remembered, EventsAreOwn, [Next]_vars
  PROVE  EventsAreOwn'
<1>1. ASSUME event' = NoEvent
      PROVE  EventsAreOwn'
  BY <1>1 DEF EventsAreOwn, NoEvent
<1>2. ASSUME NEW c \in Contexts, Update(c), event' # NoEvent
      PROVE  EventsAreOwn'
  <2>1. UNCHANGED <<freed, downOn, upOn>>
    BY <1>2 DEF Update, AppStep, ons
  <2>2. /\ \A d \in Contexts \ {c} : tag'[d] = tag[d]
        /\ Owners'
    BY <1>2, TagChange DEF AppChange
  <2>3. tag \in [Contexts -> 0 .. NTags] /\ tag' \in [Contexts -> 0 .. NTags]
    BY DEF TypeOK
  <2>4. tag'[c] # 0 /\ ((event' = <<"down", c>> /\ tagDown = tag'[c])
                         \/ (event' = <<"tap", c>> /\ tagUp = tag'[c]))
    <3> DEFINE t == IF Owns(c) THEN tag[c] ELSE FreeTag(handlers)
    <3>1. tag'[c] = t
      BY <1>2, <2>3 DEF Update
    <3>2. t # 0 /\ ((event' = <<"down", c>> /\ tagDown = t) \/ (event' = <<"tap", c>> /\ tagUp = t))
      BY <1>2 DEF Update
    <3> HIDE DEF t
    <3>. QED
      BY <3>1, <3>2
  <2>5. ASSUME NEW p, StoodFor(tag'[c], p), tag'[c] # 0
        PROVE  p = c \/ tag'[c] \in freed
    <3>1. CASE p \in Contexts /\ tag[p] = tag'[c]
      <4>1. p # c => tag'[p] = tag'[c] /\ handlers'[tag'[p]] = p /\ handlers'[tag'[c]] = c
        BY <2>2, <2>5, <3>1 DEF Owners
      <4>. QED
        BY <4>1
    <3>2. tag'[c] \in Tags
      BY <2>3, <2>5, TouchAssumption DEF Tags
    <3>. QED
      BY <2>5, <3>1, <3>2 DEF StoodFor, StandsFor
  <2>6. StoodFor(tagDown, downOn) /\ StoodFor(tagUp, upOn)
    BY DEF Remembered
  <2>7. /\ event' = <<"down", c>> => downOn = c \/ tag'[c] \in freed
        /\ event' = <<"tap", c>>  => upOn = c \/ tag'[c] \in freed
    BY <2>4, <2>5, <2>6
  <2>8. \A d \in Contexts : event' \in {<<"down", d>>, <<"tap", d>>} => d = c
    BY <2>4
  <2>. QED
    BY <2>1, <2>7, <2>8 DEF EventsAreOwn
<1>3. CASE UNCHANGED vars
  BY <1>3 DEF vars, ons, EventsAreOwn
<1>4. CASE \/ \E p \in Places : Touch(p)
           \/ Scan \/ PollSkipped \/ PollNoTouch \/ PollTouch \/ PollTag
           \/ (\E c \in Contexts : Start(c) \/ End(c))
           \/ SuppressCurrentTags \/ Swap \/ Refuse
  <2>1. event' = NoEvent
    BY <1>4 DEF Touch, Scan, PollSkipped, PollNoTouch, PollTouch, PollTag, Polled, Start, End,
                SuppressCurrentTags, Swap, Refuse
  <2>. QED
    BY <1>1, <2>1
<1>. QED
  BY <1>1, <1>2, <1>3, <1>4 DEF Next

LEMMA InvAlways == Spec => []Inv
<1>1. Init => Inv
  BY TouchAssumption DEF Init, Inv, Owners, Held, Remembered, Fresh, EventsAreOwn, StoodFor,
     StandsFor, Tags, NonTag, NoEvent
<1>2. TypeOK /\ TypeOK' /\ Inv /\ [Next]_vars => Inv'
  BY OwnersStep, HeldStep, RememberedStep, FreshStep, EventsStep DEF Inv
<1>. QED
  BY <1>1, <1>2, TypeCorrect, PTL DEF Spec

(***************************************************************************)
(* What the widgets are told.                                              *)
(***************************************************************************)
(* When a frame ends, a widget that was told Down and not yet Up holds the *)
(* tag that the touch began on, and the touch lasts: for any number of     *)
(* widgets starting, ending and handing tags over, and whatever is polled  *)
(* late or not at all (Esd_TouchTag_Update).                               *)
THEOREM HeldAreTouched == Spec => []HeldIsTouched
<1>1. Inv => HeldIsTouched
  BY DEF Inv, Owners, Held, HeldIsTouched, Owns
<1>. QED
  BY <1>1, InvAlways, PTL

(* Down and Tap are called of the widget on whose image the finger was     *)
(* found, unless its tag has changed hands around that touch.              *)
THEOREM EventsOwned == Spec => []EventsAreOwn
<1>1. Inv => EventsAreOwn
  BY DEF Inv
<1>. QED
  BY <1>1, InvAlways, PTL
=============================================================================
