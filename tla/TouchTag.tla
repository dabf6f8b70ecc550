------------------------------ MODULE TouchTag ------------------------------
(***************************************************************************)
(* The touch tags of Esd_TouchTag.c.  A widget (an Esd_TouchTag) holds one *)
(* of the tags and draws itself with it; the engine reports the tag under  *)
(* the finger, as found while it last scanned out the screen; once per     *)
(* frame the host polls position and tag, and the widgets' updates turn    *)
(* that into Down, Up and Tap.                                             *)
(*                                                                         *)
(* The screen lags the tags held: it shows the frame drawn before.  A frame*)
(* whose rendering was refused (a fault, the logo) does not count as one,  *)
(* and the next Esd_Update does not poll.                                  *)
(***************************************************************************)
EXTENDS Integers, FiniteSets, FiniteSetsExt

CONSTANTS
  Contexts,     \* the Esd_TouchTag there are
  NTags,        \* the tags there are to hold: 1 to 254 but 63, which holds
                \* &s_NullTag (253)
  Nobody,       \* NULL in s_TagHandlers
  Bare, Off     \* the finger is beside every widget; is not on the screen

ASSUME TouchAssumption ==
  /\ NTags \in Nat \ {0}
  /\ Nobody \notin Contexts /\ {Bare, Off} \cap Contexts = {} /\ Bare # Off

Tags   == 1 .. NTags
NonTag == NTags + 1                         \* 255: a touch on no tag
Places == Contexts \cup {Bare, Off}

VARIABLES
  \* each Esd_TouchTag
  tag, set,
  \* the statics of Esd_TouchTag.c
  handlers,     \* s_TagHandlers
  gpuTag,       \* s_GpuRegTouchTag
  tagDown, tagUp, suppress,
  polled,       \* s_LastTagFrame is the current frame
  \* the loop
  pc,           \* "poll", "tag" (between the two reads) or "update"
  toUpdate,     \* the widgets told Down that the application has yet to update
  \* the engine
  finger,       \* where it is
  screen,       \* the tag each widget is shown with
  regTag,       \* REG_TOUCH_TAG
  \* history
  sensed,       \* where the finger was when regTag was found
  lastOn, downOn, upOn,  \* the places that gpuTag, tagDown and tagUp stand for
  freed,        \* the tags given up since the last two polls without a touch
  event         \* what the last step called: Down or Tap, and of whom

statics == <<handlers, gpuTag, tagDown, tagUp, suppress, polled>>
engine  == <<finger, screen, regTag, sensed>>
ons     == <<lastOn, downOn, upOn>>
vars    == <<tag, set, statics, pc, toUpdate, engine, ons, freed, event>>

NoEvent == <<"none", Nobody>>

Init ==
  /\ tag = [c \in Contexts |-> 0] /\ set = [c \in Contexts |-> FALSE]
  /\ handlers = [t \in Tags |-> Nobody]
  /\ gpuTag = 0 /\ tagDown = 0 /\ tagUp = 0
  /\ suppress = FALSE /\ polled = FALSE
  /\ pc = "poll" /\ toUpdate = {}
  /\ finger = Off /\ screen = [c \in Contexts |-> NonTag]
  /\ regTag = 0 /\ sensed = Off
  /\ lastOn = Off /\ downOn = Off /\ upOn = Off
  /\ freed = {} /\ event = NoEvent

-----------------------------------------------------------------------------
(* The engine (external).  The finger moves at any time. *)
Touch(p) ==
  /\ finger # p
  /\ finger' = p /\ event' = NoEvent
  /\ UNCHANGED <<tag, set, statics, pc, toUpdate, screen, regTag, sensed, ons, freed>>

TagUnder(p) == CASE p = Off  -> 0
                 [] p = Bare -> NonTag
                 [] OTHER    -> screen[p]

Sense == regTag' = TagUnder(finger) /\ sensed' = finger

(* The tag is found while the screen is scanned out. *)
Scan ==
  /\ Sense /\ event' = NoEvent
  /\ UNCHANGED <<tag, set, statics, pc, toUpdate, finger, screen, ons, freed>>

-----------------------------------------------------------------------------
(* Wrong on purpose: the end of the touch does not clear s_TagDown. *)
RecordKeepsDown(t, p) ==
  /\ tagDown' = IF tagDown = 0 THEN t ELSE tagDown
  /\ downOn'  = CASE t = 0                -> Off
                  [] t # 0 /\ tagDown = 0 -> p
                  [] OTHER                -> downOn
  /\ tagUp' = IF t = 0 THEN gpuTag ELSE tagUp
  /\ upOn'  = IF t = 0 THEN lastOn ELSE upOn
  /\ suppress' = (suppress /\ t # 0)
  /\ gpuTag' = t /\ lastOn' = p
  /\ freed' = IF t = 0 /\ gpuTag = 0 THEN {} ELSE freed

(* Wrong on purpose: the touch ends on the tag it began on. *)
RecordStart(t, p) ==
  /\ tagDown' = CASE t = 0                -> 0
                  [] t # 0 /\ tagDown = 0 -> t
                  [] OTHER                -> tagDown
  /\ downOn'  = CASE t = 0                -> Off
                  [] t # 0 /\ tagDown = 0 -> p
                  [] OTHER                -> downOn
  /\ tagUp' = IF t = 0 THEN tagDown ELSE tagUp
  /\ upOn'  = IF t = 0 THEN lastOn ELSE upOn
  /\ suppress' = (suppress /\ t # 0)
  /\ gpuTag' = t /\ lastOn' = p
  /\ freed' = IF t = 0 /\ gpuTag = 0 THEN {} ELSE freed

(* Esd_TouchTag_Update(NULL): the new tag t, found at place p, replaces    *)
(* the last one.                                                           *)
Record(t, p) ==
  /\ tagDown' = CASE t = 0                -> 0
                  [] t # 0 /\ tagDown = 0 -> t
                  [] OTHER                -> tagDown
  /\ downOn'  = CASE t = 0                -> Off
                  [] t # 0 /\ tagDown = 0 -> p
                  [] OTHER                -> downOn
  /\ tagUp' = IF t = 0 THEN gpuTag ELSE tagUp
  /\ upOn'  = IF t = 0 THEN lastOn ELSE upOn
  /\ suppress' = (suppress /\ t # 0)
  /\ gpuTag' = t /\ lastOn' = p
  /\ freed' = IF t = 0 /\ gpuTag = 0 THEN {} ELSE freed

(* The end of the poll, on to the application's update. *)
Polled ==
  /\ pc' = "update" /\ event' = NoEvent
  /\ toUpdate' = {c \in Contexts : set[c]}
  /\ UNCHANGED <<tag, set, handlers, engine>>

(* The tag was polled in this frame already: its rendering was refused. *)
PollSkipped ==
  /\ pc = "poll" /\ polled = TRUE
  /\ Polled
  /\ UNCHANGED <<gpuTag, tagDown, tagUp, suppress, polled, ons, freed>>

(* REG_TOUCH_TAG_XY says that nothing touches. *)
PollNoTouch ==
  /\ pc = "poll" /\ polled = FALSE
  /\ finger = Off
  /\ Record(0, Off) /\ polled' = TRUE
  /\ Polled

PollTouch ==
  /\ pc = "poll" /\ polled = FALSE
  /\ finger # Off
  /\ pc' = "tag" /\ polled' = TRUE /\ event' = NoEvent
  /\ UNCHANGED <<tag, set, handlers, gpuTag, tagDown, tagUp, suppress, toUpdate,
                 engine, ons, freed>>

(* REG_TOUCH_TAG may be behind the position, and then gives no tag: the    *)
(* last one is kept.                                                       *)
PollTag ==
  /\ pc = "tag"
  /\ LET t == IF regTag = 0 THEN gpuTag ELSE regTag
         p == IF regTag = 0 THEN lastOn ELSE sensed
     IN  Record(IF t # 0 /\ suppress THEN NonTag ELSE t, p)
  /\ polled' = polled
  /\ Polled

-----------------------------------------------------------------------------
(* The first free tag, or 0, among the handlers hs. *)
FreeTag(hs) ==
  LET free == {t \in Tags : hs[t] = Nobody} IN IF free = {} THEN 0 ELSE Min(free)

Hold(hs, c, t) == IF t = 0 THEN hs ELSE [hs EXCEPT ![t] = c]

(* The handlers once c has given up its tag. *)
Released(c) ==
  IF tag[c] # 0 /\ handlers[tag[c]] = c THEN [handlers EXCEPT ![tag[c]] = Nobody]
                                        ELSE handlers

AppStep(c) ==
  /\ pc = "update"
  /\ toUpdate' = toUpdate \ {c}
  /\ UNCHANGED <<gpuTag, tagDown, tagUp, polled, pc, engine, ons>>

(* Esd_TouchTag_End: Up is called when the widget was told Down. *)
End(c) ==
  /\ AppStep(c)
  /\ tag[c] # 0 \/ set[c]
  /\ set' = [set EXCEPT ![c] = FALSE]
  /\ handlers' = Released(c)
  /\ tag' = [tag EXCEPT ![c] = 0]
  /\ freed' = freed \cup {tag[c]}
  /\ event' = NoEvent
  /\ UNCHANGED suppress

(* Esd_TouchTag_Start ends what the widget had first. *)
Start(c) ==
  /\ AppStep(c)
  /\ set' = IF tag[c] # 0 THEN [set EXCEPT ![c] = FALSE] ELSE set
  /\ LET t == FreeTag(Released(c)) IN
     tag' = [tag EXCEPT ![c] = t] /\ handlers' = Hold(Released(c), c, t)
  /\ freed' = freed \cup {tag[c]}
  /\ event' = NoEvent
  /\ UNCHANGED suppress

(* Esd_TouchTag_Update(context): a widget without a tag of its own gets    *)
(* one, then is told what has become of the touch.                         *)
Owns(c) == tag[c] # 0 /\ handlers[tag[c]] = c

Update(c) ==
  /\ AppStep(c)
  /\ LET t == IF Owns(c) THEN tag[c] ELSE FreeTag(handlers) IN
     /\ tag' = [tag EXCEPT ![c] = t]
     /\ handlers' = Hold(handlers, c, t)
     /\ \/ /\ t # 0 /\ set[c] /\ tagDown # t
           /\ set' = [set EXCEPT ![c] = FALSE]
           /\ event' = IF tagUp = t THEN <<"tap", c>> ELSE NoEvent
        \/ /\ t # 0 /\ ~set[c] /\ tagDown = t
           /\ set' = [set EXCEPT ![c] = TRUE]
           /\ event' = <<"down", c>>
        \/ /\ t = 0 \/ set[c] = (tagDown = t)
           /\ set' = set /\ event' = NoEvent
  /\ UNCHANGED <<suppress, freed>>

(* Esd_TouchTag_SuppressCurrentTags *)
SuppressCurrentTags ==
  /\ pc = "update"
  /\ suppress' = TRUE /\ event' = NoEvent
  /\ UNCHANGED <<tag, set, handlers, gpuTag, tagDown, tagUp, polled, pc, toUpdate,
                 engine, ons, freed>>

-----------------------------------------------------------------------------
(* Wrong on purpose: a widget without a tag draws itself with tag 0. *)
TagOfRaw(c) == tag[c]

(* Esd_TouchTag_Tag *)
TagOf(c) == IF tag[c] # 0 THEN tag[c] ELSE NonTag

(* The frame is rendered with the widgets of some set and swapped in at    *)
(* the end of a scan; Frame is counted up.                                 *)
Swap ==
  /\ pc = "update" /\ toUpdate = {}
  /\ pc' = "poll" /\ polled' = FALSE /\ event' = NoEvent
  /\ Sense
  /\ \E drawn \in SUBSET Contexts :
       screen' = [c \in Contexts |-> IF c \in drawn THEN TagOf(c) ELSE NonTag]
  /\ UNCHANGED <<tag, set, handlers, gpuTag, tagDown, tagUp, suppress, toUpdate,
                 finger, ons, freed>>

(* Esd_Render returns at once, for a fault or the logo. *)
Refuse ==
  /\ pc = "update" /\ toUpdate = {}
  /\ pc' = "poll" /\ event' = NoEvent
  /\ UNCHANGED <<tag, set, statics, toUpdate, engine, ons, freed>>

Next ==
  \/ \E p \in Places : Touch(p)
  \/ Scan
  \/ PollSkipped \/ PollNoTouch \/ PollTouch \/ PollTag
  \/ \E c \in Contexts : Start(c) \/ End(c) \/ Update(c)
  \/ SuppressCurrentTags
  \/ Swap \/ Refuse

Spec == Init /\ [][Next]_vars

-----------------------------------------------------------------------------
(* The tags held, and the statics. *)
TypeOK ==
  /\ tag \in [Contexts -> 0 .. NTags] /\ set \in [Contexts -> BOOLEAN]
  /\ handlers \in [Tags -> Contexts \cup {Nobody}]
  /\ \A x \in {gpuTag, tagDown, tagUp, regTag} : x \in 0 .. NonTag
  /\ suppress \in BOOLEAN /\ polled \in BOOLEAN
  /\ pc \in {"poll", "tag", "update"} /\ toUpdate \subseteq Contexts
  /\ finger \in Places /\ screen \in [Contexts -> 1 .. NonTag]

(* Esd_TouchTag.h: "One Up is guaranteed to be called for every Down."     *)
(* When a frame ends, a widget that was told Down and not yet Up is the    *)
(* holder of the tag the touch began on, and the touch still lasts: a      *)
(* release the poll has seen was told in that frame, and two widgets are   *)
(* never held at once.                                                     *)
HeldIsTouched ==
  pc = "poll" =>
    \A c \in Contexts : set[c] => Owns(c) /\ tag[c] = tagDown /\ gpuTag # 0

(* A widget is told Down when the finger was found on its image as the     *)
(* touch began, and Tap when it was found there last as well, unless its   *)
(* tag has changed hands around that touch: not after a frame lost, not    *)
(* when the tag read is behind the position, not for a touch that moved.   *)
EventsAreOwn ==
  /\ \A c \in Contexts : event = <<"down", c>> => downOn = c \/ tag[c] \in freed
  /\ \A c \in Contexts : event = <<"tap", c>>  => upOn = c \/ tag[c] \in freed

(* Esd_TouchTag.h: "Tap is called when both Down and Up events were called *)
(* while on the tag."  The finger was last found on the widget tapped.     *)
TapOnTag == \A c \in Contexts : event = <<"tap", c>> => upOn = c
=============================================================================
