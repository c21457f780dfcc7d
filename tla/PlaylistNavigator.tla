-------------------------- MODULE PlaylistNavigator --------------------------
(***************************************************************************)
(* A playlist and the position in it (QMediaPlaylistNavigator,             *)
(* qmediaplaylistnavigator.cpp, on a QLocalMediaPlaylistProvider,          *)
(* qlocalmediaplaylistprovider.cpp): edits, the playback modes, moving to  *)
(* the next and the previous item, and the history that random playback    *)
(* keeps so that it can be retraced.                                       *)
(*                                                                         *)
(* Positions count from 0 and -1 is none, as in the code.  qrand() is any  *)
(* number.  Where the code reads a list outside its range the program has  *)
(* no defined behaviour (a debug build stops at an assertion): `undefined' *)
(* is set and the model goes no further.  lastValidPos is never read and   *)
(* left out, as are slots that call back into the playlist.                *)
(*                                                                         *)
(* A definition that no other one uses is a slip: the definition after it  *)
(* as a wrong edit of the code would have it.  None is part of Next.       *)
(***************************************************************************)
EXTENDS Integers, Sequences, SequencesExt

CONSTANTS
  Media,       \* contents that can be in a playlist
  Null,        \* QMediaContent(): no content
  Modes,       \* the playback modes the user chooses from
  Others,      \* contents of other providers the navigator may be given
  MaxCount,    \* bound: items in the playlist
  MaxHistory,  \* bound: entries of the random history
  MaxSteps     \* bound: how far nextIndex() is asked to look

ASSUME MediaAssumption == Null \notin Media
ASSUME ModesAssumption ==
  Modes \subseteq {"CurrentItemOnce", "CurrentItemInLoop", "Sequential", "Loop", "Random"}
ASSUME OthersAssumption == Others \subseteq Seq(Media)
ASSUME BoundsAssumption == MaxCount \in Nat /\ MaxHistory \in Nat /\ MaxSteps \in Nat

VARIABLES
  resources,     \* the provider's items
  currentPos,
  currentItem,
  playbackMode,
  history,       \* randomModePositions and randomPositionsOffset
  announced,     \* history: the last currentIndexChanged()
  activated,     \* history: the last activated(): what the player plays
  promise,       \* history: what nextIndex() or previousIndex() answered, how many
                 \* of the steps are left, whether one of them came to no position
  trail,         \* history: positions random playback came through
  undefined

vars == <<resources, currentPos, currentItem, playbackMode, history, announced,
          activated, promise, trail, undefined>>

NoPromise == [way |-> "none", left |-> -1, pos |-> -1, ended |-> FALSE]
NoHistory == [positions |-> <<>>, offset |-> -1]
Count(items) == Len(items)
MediaAt(items, pos) == IF pos \in 0 .. Count(items) - 1 THEN items[pos + 1] ELSE Null
-----------------------------------------------------------------------------
(* Where next() and previous() would lead.                                 *)

\* The history, begun at the current position if there is none, padded so
\* that the entry at a distance from the present one exists.
Begun(h) == IF h.offset = -1 THEN [positions |-> <<currentPos>>, offset |-> 0] ELSE h
Unknown(n) == [i \in 1 .. n |-> -1]
Padded(h, distance) ==
  LET at == h.offset + distance
  IN IF at < 0 THEN [positions |-> Unknown(-at) \o h.positions, offset |-> h.offset - at]
     ELSE IF at < Len(h.positions) THEN h
     ELSE [h EXCEPT !.positions = @ \o Unknown(at + 1 - Len(h.positions))]

\* A position that is not known, or no longer there, is drawn and kept.
Drawn(h, i, pos) == h
Kept(h, i, pos) == [h EXCEPT !.positions[i] = pos]
Random(distance) ==
  LET h == Padded(Begun(history), distance)
      i == h.offset + distance + 1
      there == 0 .. Count(resources) - 1
  IN {[pos |-> p, history |-> Kept(h, i, p)] :
        p \in IF h.positions[i] \in there THEN {h.positions[i]} ELSE there}

\* A loop wraps round; from no position the way back starts at the one before
\* the last.
LoopBack(n, steps) == (currentPos - steps) % n
SequenceOn(n, steps) == IF currentPos + steps < n THEN currentPos + steps ELSE -1
SequenceBack(n, steps) ==
  LET pos == IF currentPos = -1 THEN n - steps ELSE currentPos - steps
  IN IF pos >= 0 THEN pos ELSE -1

Stays(pos) == {[pos |-> pos, history |-> history]}

\* nextItemPos() and previousItemPos(), steps >= 0.
ItemPos(way, steps) ==
  LET n == Count(resources)
      sought == n > 0 /\ steps > 0
  IN CASE n = 0 -> Stays(-1)
       [] n > 0 /\ steps = 0 -> Stays(currentPos)
       [] sought /\ playbackMode = "CurrentItemOnce" -> Stays(-1)
       [] sought /\ playbackMode = "CurrentItemInLoop" -> Stays(currentPos)
       [] sought /\ playbackMode = "Sequential" ->
            Stays(IF way = "next" THEN SequenceOn(n, steps) ELSE SequenceBack(n, steps))
       [] sought /\ playbackMode = "Loop" ->
            Stays(IF way = "next" THEN (currentPos + steps) % n ELSE LoopBack(n, steps))
       [] sought /\ playbackMode = "Random" ->
            Random(IF way = "next" THEN steps ELSE 0 - steps)
-----------------------------------------------------------------------------
(* Moving.                                                                 *)

\* jump() among items, from where currentPos has been put before: to none if
\* the position is outside.  Random playback that is not where its history
\* says begins a new one.
HistoryKept(h, pos) == h
HistoryMatching(h, pos) ==
  IF playbackMode # "Random" \/ h.positions[h.offset + 1] = pos THEN h
  ELSE [positions |-> <<pos>>, offset |-> 0]

WithinOrBehind(items, position) ==
  IF position \in 0 .. Count(items) THEN position ELSE -1
Within(items, position) ==
  IF position \in 0 .. Count(items) - 1 THEN position ELSE -1

Jump(items, position, from, h) ==
  LET pos == Within(items, position)
  IN IF playbackMode = "Random" /\ h.offset \notin 0 .. Len(h.positions) - 1
       THEN /\ undefined' = TRUE
            /\ UNCHANGED <<currentPos, currentItem, history, announced, activated>>
       ELSE /\ history' = HistoryMatching(h, pos)
            /\ currentItem' = MediaAt(items, pos)
            /\ currentPos' = pos
            /\ announced' = IF pos # from THEN pos ELSE announced
            /\ activated' = currentItem'
            /\ UNCHANGED undefined

Bounded == Len(history.positions) < MaxHistory

Advanced(h, by) == IF playbackMode = "Random" THEN [h EXCEPT !.offset = @ + by] ELSE h

\* The promise that a step in one direction is kept, or no longer binds.
Fulfilled(way) ==
  promise' = IF promise.way = way /\ promise.left > 0
               THEN [promise EXCEPT !.left = @ - 1, !.ended = @ \/ currentPos' = -1]
               ELSE NoPromise

\* next()
Advance ==
  /\ ~undefined /\ Bounded
  /\ \E n \in ItemPos("next", 1) :
       Jump(resources, n.pos, currentPos, Advanced(n.history, 1))
  /\ Fulfilled("next")
  /\ trail' = IF playbackMode = "Random" THEN Append(trail, currentPos) ELSE <<>>
  /\ UNCHANGED <<resources, playbackMode>>

\* previous()
Retreat ==
  /\ ~undefined /\ Bounded
  /\ \E n \in ItemPos("previous", 1) :
       Jump(resources, n.pos, currentPos, Advanced(n.history, -1))
  /\ Fulfilled("previous")
  /\ trail' = IF trail = <<>> THEN <<>> ELSE Front(trail)
  /\ UNCHANGED <<resources, playbackMode>>

\* nextIndex(), previousIndex(): asking, too, draws positions and keeps them.
\* Negative numbers of steps, which no caller in the repository asks for, are
\* left out.
Ask(way, steps) ==
  /\ ~undefined /\ Bounded
  /\ steps \in 0 .. MaxSteps
  /\ \E n \in ItemPos(way, steps) :
       /\ history' = n.history
       /\ promise' = [way |-> way, left |-> steps, pos |-> n.pos, ended |-> FALSE]
  /\ UNCHANGED <<resources, currentPos, currentItem, playbackMode, announced, activated,
                 trail, undefined>>

Disturbed == promise' = NoPromise /\ trail' = <<>>

\* jump(): setCurrentIndex(), with any position.
SetCurrentIndex(position) ==
  /\ ~undefined
  /\ Jump(resources, position, currentPos, history)
  /\ Disturbed
  /\ UNCHANGED <<resources, playbackMode>>

SetPlaybackMode(mode) ==
  /\ ~undefined /\ mode # playbackMode
  /\ playbackMode' = mode
  /\ history' = IF mode = "Random" THEN [positions |-> <<currentPos>>, offset |-> 0]
                ELSE IF playbackMode = "Random" THEN NoHistory
                ELSE history
  /\ Disturbed
  /\ UNCHANGED <<resources, currentPos, currentItem, announced, activated, undefined>>

\* setPlaylist(): another provider; nothing of the old one is current.
SetPlaylist(items) ==
  /\ ~undefined
  /\ resources' = items
  /\ history' = NoHistory
  /\ currentPos' = -1
  /\ currentItem' = Null
  /\ announced' = IF currentPos # -1 THEN -1 ELSE announced
  /\ activated' = IF currentItem # Null THEN Null ELSE activated
  /\ Disturbed
  /\ UNCHANGED <<playbackMode, undefined>>
-----------------------------------------------------------------------------
(* Edits, and what the navigator does when it is told of them.             *)

NoJump == UNCHANGED <<currentPos, currentItem, history, announced, activated, undefined>>

\* _q_mediaInserted(): whatever was current, the item behind as many as were
\* inserted becomes so.
MovedByInsertion(start, end) == end - start + 1
Inserted(items, start, end) ==
  IF currentPos >= start
    THEN Jump(items, MovedByInsertion(start, end), MovedByInsertion(start, end), history)
    ELSE NoJump

\* addMedia(), insertMedia(): one item or several.
InsertMedia(pos, items) ==
  /\ ~undefined
  /\ pos \in 0 .. Count(resources) /\ items # <<>>
  /\ Count(resources) + Count(items) <= MaxCount
  /\ resources' = SubSeq(resources, 1, pos) \o items
                  \o SubSeq(resources, pos + 1, Count(resources))
  /\ Inserted(resources', pos, pos + Count(items) - 1)
  /\ Disturbed
  /\ UNCHANGED playbackMode

\* _q_mediaRemoved(): the position moves by the sum of the ends, not by the
\* number of items gone; jump() makes none of one outside.
MovedByRemoval(start, end) == currentPos - end - start + 1
Removed(items, start, end) ==
  IF currentPos > end
    THEN Jump(items, MovedByRemoval(start, end), MovedByRemoval(start, end), history)
  ELSE IF currentPos >= start
    THEN LET pos == Min({start, Count(items) - 1}) IN Jump(items, pos, pos, history)
  ELSE NoJump

\* removeMedia(), and clear() of everything.
RemoveMedia(start, end) ==
  /\ ~undefined
  /\ 0 <= start /\ start <= end /\ end < Count(resources)
  /\ resources' = SubSeq(resources, 1, start)
                  \o SubSeq(resources, end + 2, Count(resources))
  /\ Removed(resources', start, end)
  /\ Disturbed
  /\ UNCHANGED playbackMode

\* _q_mediaChanged()
ChangedBefore(start, end) == currentPos >= start /\ currentPos < end
ChangedAt(start, end) == currentPos >= start /\ currentPos <= end
Changed(items, start, end) ==
  /\ currentItem' = IF ChangedAt(start, end) THEN MediaAt(items, currentPos) ELSE currentItem
  /\ activated' = IF currentItem' # currentItem THEN currentItem' ELSE activated
  /\ UNCHANGED <<currentPos, history, announced, undefined>>

\* shuffle(): any order; positions stay.
Shuffle ==
  /\ ~undefined /\ resources # <<>>
  /\ resources' \in {[i \in DOMAIN resources |-> resources[f[i]]] :
                       f \in {g \in [DOMAIN resources -> DOMAIN resources] : IsInjective(g)}}
  /\ Changed(resources', 0, Count(resources) - 1)
  /\ Disturbed
  /\ UNCHANGED playbackMode

Init ==
  /\ resources = <<>>
  /\ currentPos = -1
  /\ currentItem = Null
  /\ playbackMode = "Sequential"
  /\ history = NoHistory
  /\ announced = -1
  /\ activated = Null
  /\ promise = NoPromise
  /\ trail = <<>>
  /\ undefined = FALSE

Next ==
  \/ Advance
  \/ Retreat
  \/ \E way \in {"next", "previous"}, steps \in 0 .. MaxSteps : Ask(way, steps)
  \/ \E position \in -2 .. MaxCount : SetCurrentIndex(position)
  \/ \E mode \in Modes : SetPlaybackMode(mode)
  \/ \E items \in Others : SetPlaylist(items)
  \/ \E pos \in 0 .. MaxCount, items \in BoundedSeq(Media, 2) : InsertMedia(pos, items)
  \/ \E start, end \in 0 .. MaxCount - 1 : RemoveMedia(start, end)
  \/ Shuffle

Spec == Init /\ [][Next]_vars
-----------------------------------------------------------------------------
\* The position is one of the playlist's, or none, whatever was edited and
\* wherever the user jumped; the history has a present entry or none.
TypeOK ==
  /\ resources \in Seq(Media)
  /\ currentPos \in -1 .. Count(resources) - 1
  /\ currentItem \in Media \cup {Null} /\ activated \in Media \cup {Null}
  /\ ~undefined => history.offset \in -1 .. Len(history.positions) - 1

\* What the player was last told to play is the current item, which is the
\* one at the current position, after every edit, shuffle and jump.
PlayerHasCurrentItem ==
  ~undefined => /\ currentItem = MediaAt(resources, currentPos)
                /\ activated = currentItem

\* nextIndex(n) is where calling next() n times leads, in every mode and
\* whatever random playback draws, as long as nothing else is done, and
\* previousIndex() likewise, answers of -1 included.  One case excepted: in
\* sequential playback -1 says that the position asked for is off the playlist
\* (qmediaplaylistnavigator.cpp:363-364); the steps then come to no position on
\* the way, and those behind that one start again at the other end.
PromiseIsKept ==
  promise.left = 0 /\ ~undefined =>
    \/ currentPos = promise.pos
    \/ playbackMode = "Sequential" /\ promise.pos = -1 /\ promise.ended

\* Going back in random playback leads through the positions it came by.
RandomRetraces ==
  [][Retreat /\ ~undefined' /\ trail # <<>> =>
       Last(trail) = -1 \/ currentPos' = Last(trail)]_vars

\* "Returns the index of the item, which would be current after calling next()
\* steps times" (qmediaplaylist.cpp), without the exception.  (Not so: at the
\* last item in sequential playback nextIndex(2) is -1, two next() lead to 0.)
AnswerIsKept == promise.left = 0 /\ ~undefined => currentPos = promise.pos

\* Whoever listens to currentIndexChanged() knows the position ("Signal
\* emitted when playlist position changed", qmediaplaylist.cpp).
PositionIsAnnounced == ~undefined => announced = currentPos

\* An item that stays in the playlist stays current when others come or go.
CurrentItemStays ==
  [][\A pos \in 0 .. MaxCount, items \in BoundedSeq(Media, 2) :
       InsertMedia(pos, items) => currentItem' = currentItem]_vars

\* No list is read outside its range.
AlwaysDefined == ~undefined
=============================================================================
