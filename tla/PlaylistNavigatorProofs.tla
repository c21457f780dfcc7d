---------------------- MODULE PlaylistNavigatorProofs ----------------------
(***************************************************************************)
(* The position, the player and the retraced history for any contents, any *)
(* playback modes, playlists and histories of any length, and any number   *)
(* of steps asked for.                                                     *)
(*                                                                         *)
(* The inductive invariant says that a history has a present entry exactly *)
(* in random playback with a position, that this entry is the position,    *)
(* and that the entries before it are those random playback came through.  *)
(*                                                                         *)
(* For what nextIndex() promises it says, mode by mode, how the position   *)
(* or the history's entries determine the position promised while steps to *)
(* it are left, and when they lead to none.                                *)
(***************************************************************************)
EXTENDS PlaylistNavigator, SequenceTheorems, TLAPS

AllModes == {"CurrentItemOnce", "CurrentItemInLoop", "Sequential", "Loop", "Random"}
Histories == [positions : Seq(Int), offset : Int]
PositionsOf(items) == -1 .. Len(items) - 1

Types ==
  /\ resources \in Seq(Media)
  /\ playbackMode \in AllModes
  /\ currentPos \in PositionsOf(resources)
  /\ currentItem \in Media \cup {Null}
  /\ activated \in Media \cup {Null}
  /\ history \in Histories
  /\ history.offset \in -1 .. Len(history.positions) - 1
  /\ undefined \in BOOLEAN
  /\ trail \in Seq(PositionsOf(resources))

\* Random playback with a position has a history whose present entry is it;
\* the other modes have none.
HistoryPresent ==
  /\ history.offset # -1 => /\ playbackMode = "Random"
                            /\ history.positions[history.offset + 1] = currentPos
  /\ playbackMode = "Random" /\ currentPos # -1 => history.offset # -1

\* The entries before the present one are where random playback came from,
\* so far as it came from a position.
TrailKept ==
  resources # <<>> /\ ~undefined =>
    /\ trail = <<>> \/ Len(trail) <= history.offset
    /\ \A i \in 1 .. Len(trail) :
         trail[i] # -1 => history.positions[history.offset - Len(trail) + i] = trail[i]

IInv == Types /\ PlayerHasCurrentItem /\ HistoryPresent /\ TrailKept

PromiseTypes ==
  promise \in [way : {"none", "next", "previous"}, left : -1 .. MaxSteps, pos : Int,
               ended : BOOLEAN]

\* How far from the present entry the promised one is.
Distance == IF promise.way = "next" THEN promise.left ELSE 0 - promise.left

\* Where sequential playback counts from: backwards, from no position, from
\* behind the last.
Base(items) == IF promise.way = "previous" /\ currentPos = -1 THEN Len(items) ELSE currentPos

\* As long as steps are left they lead from here to the item promised,
LeadsToItem ==
  /\ promise.pos \in 0 .. Len(resources) - 1
  /\ playbackMode # "CurrentItemOnce"
  /\ playbackMode = "CurrentItemInLoop" => promise.pos = currentPos
  /\ playbackMode = "Sequential" => promise.pos = Distance + Base(resources)
  /\ playbackMode = "Loop" => promise.pos = (currentPos + Distance) % Len(resources)
  /\ playbackMode = "Random" =>
       /\ history.offset # -1
       /\ history.offset + Distance \in 0 .. Len(history.positions) - 1
       /\ history.positions[history.offset + Distance + 1] = promise.pos

\* or to none, because there is none to lead to, or off the playlist.
LeadsToNone ==
  /\ promise.pos = -1
  /\ \/ resources = <<>>
     \/ playbackMode = "CurrentItemOnce"
     \/ playbackMode = "CurrentItemInLoop" /\ currentPos = -1
     \/ /\ playbackMode = "Sequential"
        /\ promise.ended \/ Distance + Base(resources) \notin 0 .. Len(resources) - 1

Leads == promise.way # "none" /\ (LeadsToItem \/ LeadsToNone)

PromiseHeld == promise.left > 0 /\ ~undefined => Leads
PInv == IInv /\ PromiseTypes /\ PromiseHeld /\ PromiseIsKept
-----------------------------------------------------------------------------
\* A run of unknown positions.
LEMMA UnknownFacts ==
  ASSUME NEW n \in Nat
  PROVE  /\ Unknown(n) \in Seq(Int)
         /\ Len(Unknown(n)) = n
         /\ \A i \in 1 .. n : Unknown(n)[i] = -1
BY DEF Unknown

\* Unknown positions before or behind others.
LEMMA PaddingFacts ==
  ASSUME NEW n \in Nat, NEW s \in Seq(Int)
  PROVE  /\ Unknown(n) \o s \in Seq(Int) /\ s \o Unknown(n) \in Seq(Int)
         /\ Len(Unknown(n) \o s) = n + Len(s) /\ Len(s \o Unknown(n)) = Len(s) + n
         /\ \A j \in 1 .. Len(s) : /\ (Unknown(n) \o s)[n + j] = s[j]
                                   /\ (s \o Unknown(n))[j] = s[j]
<1> DEFINE u == Unknown(n)
<1>1. u \in Seq(Int) /\ Len(u) = n /\ Len(s) \in Nat
  BY UnknownFacts
<1> HIDE DEF u
<1>2. /\ u \o s \in Seq(Int)
      /\ Len(u \o s) = n + Len(s)
      /\ \A i \in 1 .. n + Len(s) : (u \o s)[i] = IF i <= n THEN u[i] ELSE s[i - n]
  BY <1>1, ConcatProperties
<1>3. /\ s \o u \in Seq(Int)
      /\ Len(s \o u) = Len(s) + n
      /\ \A i \in 1 .. Len(s) + n : (s \o u)[i] = IF i <= Len(s) THEN s[i] ELSE u[i - Len(s)]
  BY <1>1, ConcatProperties
<1>4. ASSUME NEW j \in 1 .. Len(s)
      PROVE  (u \o s)[n + j] = s[j] /\ (s \o u)[j] = s[j]
  <2>1. n + j \in 1 .. n + Len(s) /\ ~(n + j <= n) /\ n + j - n = j
    BY <1>1
  <2>2. (u \o s)[n + j] = s[j]
    BY <1>2, <2>1
  <2>3. (s \o u)[j] = s[j]
    BY <1>1, <1>3
  <2> QED
    BY <2>2, <2>3
<1>5. /\ u \o s \in Seq(Int) /\ s \o u \in Seq(Int)
      /\ Len(u \o s) = n + Len(s) /\ Len(s \o u) = Len(s) + n
      /\ \A j \in 1 .. Len(s) : (u \o s)[n + j] = s[j] /\ (s \o u)[j] = s[j]
  BY <1>2, <1>3, <1>4
<1> QED
  BY <1>5 DEF u

\* Padding makes the entry at the distance exist and leaves those up to the
\* present one where they were as seen from it.
LEMMA PaddedFacts ==
  ASSUME NEW h \in Histories, h.offset \in 0 .. Len(h.positions) - 1, NEW d \in Int
  PROVE  /\ Padded(h, d) \in Histories
         /\ Padded(h, d).offset \in 0 .. Len(Padded(h, d).positions) - 1
         /\ Padded(h, d).offset + d \in 0 .. Len(Padded(h, d).positions) - 1
         /\ Padded(h, d).offset >= h.offset
         /\ \A j \in 1 .. h.offset + 1 :
              Padded(h, d).positions[Padded(h, d).offset - h.offset + j] = h.positions[j]
<1> DEFINE g == Padded(h, d)
<1>1. PICK P \in Seq(Int), o \in Int : h = [positions |-> P, offset |-> o]
  BY DEF Histories
<1>2. h.positions = P /\ h.offset = o /\ o \in 0 .. Len(P) - 1 /\ Len(P) \in Nat
  BY <1>1
<1> SUFFICES \E s \in Seq(Int), k \in Nat :
               /\ g \in Histories
               /\ g.positions = s /\ g.offset = o + k
               /\ o + k < Len(s) /\ o + k + d \in 0 .. Len(s) - 1
               /\ \A j \in 1 .. o + 1 : s[k + j] = P[j]
  <2>1. ASSUME NEW s \in Seq(Int), NEW k \in Nat,
               g.positions = s, g.offset = o + k,
               o + k < Len(s), o + k + d \in 0 .. Len(s) - 1,
               \A j \in 1 .. o + 1 : s[k + j] = P[j]
        PROVE  /\ g.offset \in 0 .. Len(g.positions) - 1
               /\ g.offset + d \in 0 .. Len(g.positions) - 1
               /\ g.offset >= o
               /\ \A j \in 1 .. o + 1 : g.positions[g.offset - o + j] = P[j]
    <3>1. o + k \in 0 .. Len(s) - 1 /\ o + k >= o /\ o + k - o = k
      BY <1>2, <2>1
    <3> QED
      BY <2>1, <3>1
  <2> QED
    BY <1>2, <2>1
<1>3. CASE o + d < 0
  <2> DEFINE n == -(o + d)
             s == Unknown(n) \o P
  <2>1. n \in Nat /\ o + d = 0 - n
    BY <1>3
  <2>2. g = [positions |-> s, offset |-> o + n]
    <3>1. o - (o + d) = o + n
      BY <1>3
    <3> QED
      BY <1>1, <1>3, <3>1 DEF Padded
  <2> HIDE DEF n
  <2>3. /\ s \in Seq(Int)
        /\ Len(s) = n + Len(P)
        /\ \A j \in 1 .. Len(P) : s[n + j] = P[j]
    BY <1>2, <2>1, PaddingFacts
  <2> HIDE DEF s, g
  <2>4. g \in Histories /\ g.positions = s /\ g.offset = o + n
    BY <2>1, <2>2, <2>3 DEF Histories
  <2>5. o + n < Len(s) /\ o + n + d \in 0 .. Len(s) - 1
    BY <1>2, <2>1, <2>3
  <2>6. \A j \in 1 .. o + 1 : s[n + j] = P[j]
    BY <1>2, <2>3
  <2> QED
    BY <2>1, <2>3, <2>4, <2>5, <2>6
<1>4. CASE o + d >= 0 /\ o + d < Len(P)
  <2>1. g = h
    BY <1>1, <1>4 DEF Padded
  <2>2. \A j \in 1 .. o + 1 : 0 + j = j
    OBVIOUS
  <2> HIDE DEF g
  <2>3. g.positions = P /\ g.offset = o + 0
    BY <1>2, <2>1
  <2>4. o + 0 < Len(P) /\ o + 0 + d \in 0 .. Len(P) - 1
    BY <1>2, <1>4
  <2> QED
    BY <2>1, <2>2, <2>3, <2>4
<1>5. CASE o + d >= Len(P)
  <2> DEFINE n == o + d + 1 - Len(P)
             s == P \o Unknown(n)
  <2>1. n \in Nat /\ Len(P) + n = o + d + 1
    BY <1>2, <1>5
  <2>2. g = [h EXCEPT !.positions = s]
    <3>1. ~(h.offset + d < 0) /\ ~(h.offset + d < Len(h.positions))
      BY <1>2, <1>5
    <3> QED
      BY <1>2, <3>1, Zenon DEF Padded
  <2> HIDE DEF n
  <2>3. /\ s \in Seq(Int)
        /\ Len(s) = Len(P) + n
        /\ \A j \in 1 .. Len(P) : s[j] = P[j]
    BY <1>2, <2>1, PaddingFacts
  <2> HIDE DEF s, g
  <2>4. g \in Histories /\ g.positions = s /\ g.offset = o
    BY <1>1, <2>2, <2>3 DEF Histories
  <2>5. o + 0 < Len(s) /\ o + 0 + d \in 0 .. Len(s) - 1 /\ o + 0 = o
    BY <1>2, <1>5, <2>1, <2>3
  <2>6. \A j \in 1 .. o + 1 : s[0 + j] = P[j]
    BY <1>2, <2>3
  <2> QED
    BY <2>3, <2>4, <2>5, <2>6
<1> QED
  BY <1>2, <1>3, <1>4, <1>5

\* A history begun at a position.
LEMMA NewHistoryFacts ==
  ASSUME NEW pos \in Int
  PROVE  LET h == [positions |-> <<pos>>, offset |-> 0]
         IN  /\ h \in Histories
             /\ h.offset \in -1 .. Len(h.positions) - 1
             /\ h.offset # -1
             /\ h.positions[h.offset + 1] = pos
BY DEF Histories

\* Beginning a history where there is none: the present entry is the position.
LEMMA BegunFacts ==
  ASSUME Types, HistoryPresent, playbackMode = "Random"
  PROVE  /\ Begun(history) \in Histories
         /\ Begun(history).offset \in 0 .. Len(Begun(history).positions) - 1
         /\ Begun(history).positions[Begun(history).offset + 1] = currentPos
         /\ history.offset # -1 => Begun(history) = history
<1>1. CASE history.offset = -1
  <2>1. Begun(history) = [positions |-> <<currentPos>>, offset |-> 0]
    BY <1>1 DEF Begun
  <2>2. currentPos \in Int
    BY DEF Types, PositionsOf
  <2> QED
    BY <1>1, <2>1, <2>2 DEF Histories
<1>2. CASE history.offset # -1
  BY <1>2 DEF Begun, Types, HistoryPresent, Histories
<1> QED
  BY <1>1, <1>2

\* What asking for the position at a distance answers in random playback.
LEMMA RandomFacts ==
  ASSUME Types, HistoryPresent, playbackMode = "Random",
         NEW d \in Int, d # 0, NEW n \in Random(d)
  PROVE  LET h == Padded(Begun(history), d)
         IN  /\ n.pos \in 0 .. Len(resources) - 1
             /\ h.positions[h.offset + d + 1] \in 0 .. Len(resources) - 1
                  => n.pos = h.positions[h.offset + d + 1]
             /\ n.history \in Histories
             /\ n.history.offset = h.offset
             /\ Len(n.history.positions) = Len(h.positions)
             /\ n.history.positions[h.offset + d + 1] = n.pos
             /\ \A j \in 1 .. Len(h.positions) :
                  j # h.offset + d + 1 => n.history.positions[j] = h.positions[j]
<1> DEFINE h == Padded(Begun(history), d)
           i == h.offset + d + 1
<1>1. /\ h \in Histories
      /\ i \in 1 .. Len(h.positions)
  <2>1. h \in Histories /\ h.offset + d \in 0 .. Len(h.positions) - 1
    BY BegunFacts, PaddedFacts
  <2> QED
    BY <2>1 DEF Histories
<1>2. /\ n = [pos |-> n.pos, history |-> Kept(h, i, n.pos)]
      /\ n.pos \in 0 .. Len(resources) - 1
      /\ h.positions[i] \in 0 .. Len(resources) - 1 => n.pos = h.positions[i]
  BY DEF Random, Count
<1> HIDE DEF h, i
<1>3. n.history = [h EXCEPT !.positions = [h.positions EXCEPT ![i] = n.pos]]
  BY <1>2 DEF Kept
<1>4. Len(resources) \in Nat /\ n.pos \in Int
  BY <1>2 DEF Types
<1>5. h.positions \in Seq(Int) /\ Len(h.positions) \in Nat
  BY <1>1 DEF Histories
<1>6. /\ [h.positions EXCEPT ![i] = n.pos] \in Seq(Int)
      /\ Len([h.positions EXCEPT ![i] = n.pos]) = Len(h.positions)
      /\ \A j \in 1 .. Len(h.positions) :
           [h.positions EXCEPT ![i] = n.pos][j] = IF j = i THEN n.pos ELSE h.positions[j]
  BY <1>1, <1>4, <1>5, ExceptSeq
<1>7. /\ n.history \in Histories
      /\ n.history.offset = h.offset
      /\ n.history.positions = [h.positions EXCEPT ![i] = n.pos]
  BY <1>1, <1>3, <1>6 DEF Histories
<1>8. /\ n.pos \in 0 .. Len(resources) - 1
      /\ h.positions[i] \in 0 .. Len(resources) - 1 => n.pos = h.positions[i]
      /\ n.history \in Histories
      /\ n.history.offset = h.offset
      /\ Len(n.history.positions) = Len(h.positions)
      /\ n.history.positions[i] = n.pos
      /\ \A j \in 1 .. Len(h.positions) : j # i => n.history.positions[j] = h.positions[j]
  BY <1>1, <1>2, <1>6, <1>7
<1> QED
  BY <1>8 DEF h, i
-----------------------------------------------------------------------------
\* What an item is.
LEMMA MediaAtFacts ==
  ASSUME NEW items \in Seq(Media), NEW pos
  PROVE  MediaAt(items, pos) \in Media \cup {Null}
BY DEF MediaAt, Count

\* The new history after a jump: a history with a present entry, which in
\* random playback is the position jumped to.
LEMMA MatchingFacts ==
  ASSUME NEW h \in Histories, NEW pos \in Int, h.offset \in -1 .. Len(h.positions) - 1
  PROVE  LET k == HistoryMatching(h, pos)
         IN  /\ k \in Histories
             /\ k.offset \in -1 .. Len(k.positions) - 1
             /\ playbackMode # "Random" => k = h
             /\ playbackMode = "Random" /\ h.offset \in 0 .. Len(h.positions) - 1
                  => k.offset # -1 /\ k.positions[k.offset + 1] = pos
<1>1. CASE playbackMode # "Random" \/ h.positions[h.offset + 1] = pos
  BY <1>1 DEF HistoryMatching
<1>2. CASE ~(playbackMode # "Random" \/ h.positions[h.offset + 1] = pos)
  <2>1. HistoryMatching(h, pos) = [positions |-> <<pos>>, offset |-> 0]
    BY <1>2 DEF HistoryMatching
  <2> QED
    BY <1>2, <2>1 DEF Histories
<1> QED
  BY <1>1, <1>2

\* A jump, with the history as it is or, among the same items, moved: the
\* player has the item at the new position, and the history matches it.
LEMMA JumpFacts ==
  ASSUME IInv, ~undefined,
         NEW items \in Seq(Media), NEW position, NEW from, NEW h \in Histories,
         h = history \/ (playbackMode = "Random" /\ items = resources),
         Jump(items, position, from, h),
         resources' = items, playbackMode' = playbackMode,
         trail' \in Seq(PositionsOf(items))
  PROVE  Types' /\ PlayerHasCurrentItem' /\ HistoryPresent'
<1> DEFINE pos == Within(items, position)
<1>1. pos \in PositionsOf(items) /\ pos \in Int
  BY DEF Within, PositionsOf, Count
<1> USE DEF IInv
<1>2. CASE playbackMode = "Random" /\ h.offset \notin 0 .. Len(h.positions) - 1
  <2>1. /\ undefined' = TRUE
        /\ UNCHANGED <<currentPos, currentItem, history, activated>>
    BY <1>2 DEF Jump
  <2>2. items = resources \/ currentPos = -1
    BY <1>2 DEF Types, HistoryPresent, Histories, PositionsOf
  <2>3. currentPos' \in PositionsOf(resources')
    BY <2>1, <2>2 DEF PositionsOf, Types
  <2>4. Types'
    BY <2>1, <2>3 DEF Types
  <2>5. PlayerHasCurrentItem' /\ HistoryPresent'
    BY <2>1 DEF PlayerHasCurrentItem, HistoryPresent
  <2> QED
    BY <2>4, <2>5
<1>3. CASE ~(playbackMode = "Random" /\ h.offset \notin 0 .. Len(h.positions) - 1)
  <2>1. /\ history' = HistoryMatching(h, pos)
        /\ currentItem' = MediaAt(items, pos)
        /\ currentPos' = pos
        /\ activated' = currentItem'
        /\ undefined' = undefined
    BY <1>3 DEF Jump
  <2>2. h.offset \in -1 .. Len(h.positions) - 1
    BY <1>3 DEF Types, Histories
  <2>3. /\ history' \in Histories
        /\ history'.offset \in -1 .. Len(history'.positions) - 1
        /\ playbackMode # "Random" => history' = history
        /\ playbackMode = "Random" =>
             history'.offset # -1 /\ history'.positions[history'.offset + 1] = pos
    BY <1>1, <1>3, <2>1, <2>2, MatchingFacts
  <2>4. Types'
    BY <1>1, <2>1, <2>3, MediaAtFacts DEF Types
  <2>5. PlayerHasCurrentItem'
    BY <2>1 DEF PlayerHasCurrentItem
  <2>6. HistoryPresent'
    BY <2>1, <2>3 DEF HistoryPresent
  <2> QED
    BY <2>4, <2>5, <2>6
<1> QED
  BY <1>2, <1>3

\* A jump by the user or after an edit, with which the trail ends.
LEMMA JumpKeepsIInv ==
  ASSUME IInv, ~undefined,
         NEW items \in Seq(Media), NEW position, NEW from,
         Jump(items, position, from, history),
         resources' = items, playbackMode' = playbackMode, trail' = <<>>
  PROVE  IInv'
<1>1. /\ history \in Histories
      /\ trail' \in Seq(PositionsOf(items))
  BY DEF IInv, Types, Histories
<1>2. Types' /\ PlayerHasCurrentItem' /\ HistoryPresent'
  BY <1>1, JumpFacts
<1>3. TrailKept'
  BY DEF TrailKept
<1> QED
  BY <1>2, <1>3 DEF IInv

\* A jump by the user.
LEMMA SetCurrentIndexKeepsIInv ==
  ASSUME IInv, NEW position, SetCurrentIndex(position)
  PROVE  IInv'
BY JumpKeepsIInv DEF SetCurrentIndex, Disturbed, IInv, Types

\* Entering random playback begins a history at the position; leaving it drops
\* the history.
LEMMA SetPlaybackModeKeepsIInv ==
  ASSUME IInv, NEW mode \in Modes, SetPlaybackMode(mode)
  PROVE  IInv'
<1> USE DEF IInv, SetPlaybackMode, Disturbed
<1>1. currentPos \in Int /\ playbackMode' \in AllModes /\ trail' \in Seq(PositionsOf(resources'))
  BY ModesAssumption DEF Types, AllModes, PositionsOf
<1>2. TrailKept' /\ PlayerHasCurrentItem'
  BY DEF TrailKept, PlayerHasCurrentItem
<1>3. CASE mode = "Random"
  <2>1. history' = [positions |-> <<currentPos>>, offset |-> 0]
    BY <1>3
  <2>2. /\ history' \in Histories
        /\ history'.offset \in -1 .. Len(history'.positions) - 1
        /\ history'.offset # -1
        /\ history'.positions[history'.offset + 1] = currentPos
    BY <1>1, <2>1, NewHistoryFacts
  <2> QED
    BY <1>1, <1>2, <1>3, <2>2 DEF Types, HistoryPresent
<1>4. CASE mode # "Random"
  <2>1. history' = NoHistory \/ (playbackMode # "Random" /\ history' = history)
    BY <1>4
  <2>2. /\ history' \in Histories
        /\ history'.offset \in -1 .. Len(history'.positions) - 1
        /\ history'.offset = -1
    BY <2>1 DEF Types, HistoryPresent, Histories, NoHistory
  <2> QED
    BY <1>1, <1>2, <1>4, <2>2 DEF Types, HistoryPresent
<1> QED
  BY <1>3, <1>4

\* Nothing of another provider's playlist is current.
LEMMA SetPlaylistKeepsIInv ==
  ASSUME IInv, NEW items \in Others, SetPlaylist(items)
  PROVE  IInv'
<1> USE DEF IInv, SetPlaylist, Disturbed
<1>1. resources' \in Seq(Media) /\ currentPos' \in PositionsOf(resources')
  BY OthersAssumption DEF PositionsOf
<1>2. /\ history' \in Histories
      /\ history'.offset = -1
      /\ history'.offset \in -1 .. Len(history'.positions) - 1
  BY DEF NoHistory, Histories
<1>3. activated' = Null
  BY DEF PlayerHasCurrentItem
<1>4. Types'
  BY <1>1, <1>2, <1>3 DEF Types
<1>5. MediaAt(resources', currentPos') = Null
  BY DEF MediaAt
<1> QED
  BY <1>2, <1>3, <1>4, <1>5 DEF PlayerHasCurrentItem, HistoryPresent, TrailKept

\* A list keeps its items when another follows it.
LEMMA ConcatKeeps ==
  ASSUME NEW s \in Seq(Media), NEW t \in Seq(Media)
  PROVE  /\ s \o t \in Seq(Media)
         /\ Len(s \o t) = Len(s) + Len(t)
         /\ \A i \in 1 .. Len(s) : (s \o t)[i] = s[i]
<1>1. Len(s) \in Nat /\ Len(t) \in Nat
  OBVIOUS
<1>2. /\ s \o t \in Seq(Media)
      /\ Len(s \o t) = Len(s) + Len(t)
      /\ \A i \in 1 .. Len(s) + Len(t) :
           (s \o t)[i] = IF i <= Len(s) THEN s[i] ELSE t[i - Len(s)]
  BY ConcatProperties
<1> QED
  BY <1>1, <1>2

\* Inserting keeps the items before and all others behind.
LEMMA InsertionFacts ==
  ASSUME NEW old \in Seq(Media), NEW items \in Seq(Media), NEW pos \in 0 .. Len(old)
  PROVE  LET new == SubSeq(old, 1, pos) \o items \o SubSeq(old, pos + 1, Len(old))
         IN  /\ new \in Seq(Media)
             /\ Len(new) = Len(old) + Len(items)
             /\ \A i \in 1 .. pos : new[i] = old[i]
<1> DEFINE front == SubSeq(old, 1, pos)
           back == SubSeq(old, pos + 1, Len(old))
<1>1. Len(old) \in Nat /\ Len(items) \in Nat /\ pos \in Int
  OBVIOUS
<1>2. front \in Seq(Media) /\ Len(front) = pos /\ \A i \in 1 .. pos : front[i] = old[i]
  <2>1. \A i \in 1 .. pos : old[i] \in Media
    OBVIOUS
  <2> QED
    BY <1>1, <2>1, SubSeqProperties
<1>3. back \in Seq(Media) /\ Len(back) = Len(old) - pos
  <2>1. \A i \in pos + 1 .. Len(old) : old[i] \in Media
    OBVIOUS
  <2> QED
    BY <1>1, <2>1, SubSeqProperties
<1> HIDE DEF front, back
<1> DEFINE most == front \o items
<1>4. /\ most \in Seq(Media)
      /\ Len(most) = pos + Len(items)
      /\ \A i \in 1 .. pos : most[i] = front[i]
  BY <1>2, ConcatKeeps
<1> HIDE DEF most
<1>5. /\ most \o back \in Seq(Media)
      /\ Len(most \o back) = Len(most) + Len(back)
      /\ \A i \in 1 .. Len(most) : (most \o back)[i] = most[i]
  BY <1>3, <1>4, ConcatKeeps
<1>6. Len(most \o back) = Len(old) + Len(items)
  BY <1>1, <1>3, <1>4, <1>5
<1>7. \A i \in 1 .. pos : (most \o back)[i] = old[i]
  BY <1>1, <1>2, <1>4, <1>5
<1> QED
  BY <1>5, <1>6, <1>7 DEF front, back, most

\* Removing keeps the items before.
LEMMA RemovalFacts ==
  ASSUME NEW old \in Seq(Media), NEW start \in 0 .. Len(old) - 1, NEW end \in start .. Len(old) - 1
  PROVE  LET new == SubSeq(old, 1, start) \o SubSeq(old, end + 2, Len(old))
         IN  /\ new \in Seq(Media)
             /\ Len(new) = Len(old) - (end - start + 1)
             /\ \A i \in 1 .. start : new[i] = old[i]
<1> DEFINE front == SubSeq(old, 1, start)
           back == SubSeq(old, end + 2, Len(old))
<1>1. Len(old) \in Nat /\ start \in Int /\ end \in Int
  OBVIOUS
<1>2. front \in Seq(Media) /\ Len(front) = start /\ \A i \in 1 .. start : front[i] = old[i]
  <2>1. \A i \in 1 .. start : old[i] \in Media
    OBVIOUS
  <2> QED
    BY <1>1, <2>1, SubSeqProperties
<1>3. back \in Seq(Media) /\ Len(back) = Len(old) - end - 1
  <2>1. \A i \in end + 2 .. Len(old) : old[i] \in Media
    OBVIOUS
  <2> QED
    BY <1>1, <2>1, SubSeqProperties
<1> HIDE DEF front, back
<1>4. /\ front \o back \in Seq(Media)
      /\ Len(front \o back) = Len(front) + Len(back)
      /\ \A i \in 1 .. start : (front \o back)[i] = front[i]
  BY <1>2, <1>3, ConcatKeeps
<1>5. Len(front \o back) = Len(old) - (end - start + 1)
  BY <1>1, <1>2, <1>3, <1>4
<1>6. \A i \in 1 .. start : (front \o back)[i] = old[i]
  BY <1>2, <1>4
<1> QED
  BY <1>4, <1>5, <1>6 DEF front, back

\* An edit behind the position changes nothing that matters to it.
LEMMA EditBehindKeepsIInv ==
  ASSUME IInv, ~undefined,
         resources' \in Seq(Media),
         currentPos <= Len(resources') - 1,
         currentPos >= 0 => resources'[currentPos + 1] = resources[currentPos + 1],
         NoJump, playbackMode' = playbackMode, trail' = <<>>
  PROVE  IInv'
<1> USE DEF IInv, NoJump
<1>1. /\ currentPos \in Int /\ currentPos >= -1
      /\ currentPos <= Len(resources) - 1
      /\ Len(resources) \in Nat /\ Len(resources') \in Nat
  BY DEF Types, PositionsOf
<1>2. currentPos' \in PositionsOf(resources')
  BY <1>1 DEF PositionsOf
<1>3. Types'
  BY <1>2 DEF Types
<1>4. MediaAt(resources', currentPos) = MediaAt(resources, currentPos)
  BY <1>1 DEF MediaAt, Count
<1> QED
  BY <1>3, <1>4 DEF PlayerHasCurrentItem, HistoryPresent, TrailKept

\* Inserting before the position jumps; inserting behind it leaves the player.
LEMMA InsertMediaKeepsIInv ==
  ASSUME IInv, NEW pos, NEW items \in BoundedSeq(Media, 2), InsertMedia(pos, items)
  PROVE  IInv'
<1>1. items \in Seq(Media)
  <2>1. PICK n \in 0 .. 2 : items \in [1 .. n -> Media]
    BY DEF BoundedSeq, SeqOf
  <2> QED
    BY <2>1
<1>2. /\ resources \in Seq(Media) /\ pos \in 0 .. Len(resources) /\ Len(items) \in Nat
      /\ currentPos \in Int /\ currentPos <= Len(resources) - 1
  BY <1>1 DEF InsertMedia, IInv, Types, Count, PositionsOf
<1>3. /\ resources' \in Seq(Media)
      /\ Len(resources') = Len(resources) + Len(items)
      /\ \A i \in 1 .. pos : resources'[i] = resources[i]
  BY <1>1, <1>2, InsertionFacts DEF InsertMedia, Count
<1>4. /\ ~undefined /\ playbackMode' = playbackMode /\ trail' = <<>>
      /\ Inserted(resources', pos, pos + Count(items) - 1)
  BY DEF InsertMedia, Disturbed
<1>5. CASE currentPos >= pos
  BY <1>3, <1>4, <1>5, JumpKeepsIInv DEF Inserted
<1>6. CASE ~(currentPos >= pos)
  <2>1. NoJump
    BY <1>4, <1>6 DEF Inserted
  <2>2. currentPos <= Len(resources') - 1
    BY <1>2, <1>3
  <2>3. currentPos >= 0 => resources'[currentPos + 1] = resources[currentPos + 1]
    BY <1>2, <1>3, <1>6
  <2> QED
    BY <1>3, <1>4, <2>1, <2>2, <2>3, EditBehindKeepsIInv
<1> QED
  BY <1>5, <1>6

\* Removing what the position is at or behind jumps.
LEMMA RemoveMediaKeepsIInv ==
  ASSUME IInv, NEW start \in Int, NEW end \in Int, RemoveMedia(start, end)
  PROVE  IInv'
<1>1. /\ resources \in Seq(Media) /\ Len(resources) \in Nat
      /\ start \in 0 .. Len(resources) - 1 /\ end \in start .. Len(resources) - 1
      /\ currentPos \in Int /\ currentPos <= Len(resources) - 1
  BY DEF RemoveMedia, IInv, Types, Count, PositionsOf
<1>2. /\ resources' \in Seq(Media)
      /\ Len(resources') = Len(resources) - (end - start + 1)
      /\ \A i \in 1 .. start : resources'[i] = resources[i]
  BY <1>1, RemovalFacts DEF RemoveMedia, Count
<1>3. /\ ~undefined /\ playbackMode' = playbackMode /\ trail' = <<>>
      /\ Removed(resources', start, end)
  BY DEF RemoveMedia, Disturbed
<1>4. CASE currentPos >= start
  <2>1. PICK position, from : Jump(resources', position, from, history)
    BY <1>3, <1>4 DEF Removed
  <2> QED
    BY <1>2, <1>3, <2>1, JumpKeepsIInv
<1>5. CASE ~(currentPos >= start)
  <2>1. NoJump
    BY <1>1, <1>3, <1>5 DEF Removed
  <2>2. currentPos <= Len(resources') - 1
    BY <1>1, <1>2, <1>5
  <2>3. currentPos >= 0 => resources'[currentPos + 1] = resources[currentPos + 1]
    BY <1>1, <1>2, <1>5
  <2> QED
    BY <1>2, <1>3, <2>1, <2>2, <2>3, EditBehindKeepsIInv
<1> QED
  BY <1>4, <1>5

\* Shuffling keeps the number of items, and the player gets the one that is
\* now at the position.
LEMMA ShuffleKeepsIInv ==
  ASSUME IInv, Shuffle
  PROVE  IInv'
<1>1. /\ resources \in Seq(Media) /\ Len(resources) \in Nat
      /\ currentPos \in Int /\ currentPos >= -1 /\ currentPos <= Len(resources) - 1
  BY DEF IInv, Types, PositionsOf
<1>2. PICK f \in [DOMAIN resources -> DOMAIN resources] :
        resources' = [i \in DOMAIN resources |-> resources[f[i]]]
  BY DEF Shuffle
<1>3. resources' \in Seq(Media) /\ Len(resources') = Len(resources)
  <2>1. DOMAIN resources = 1 .. Len(resources)
    BY <1>1
  <2>2. \A i \in 1 .. Len(resources) : resources[f[i]] \in Media
    BY <1>1, <2>1
  <2>3. resources' \in [1 .. Len(resources) -> Media]
    BY <1>2, <2>1, <2>2
  <2> QED
    BY <1>1, <2>3
<1>4. /\ ~undefined /\ playbackMode' = playbackMode /\ trail' = <<>>
      /\ Changed(resources', 0, Count(resources) - 1)
  BY DEF Shuffle, Disturbed
<1>5. UNCHANGED <<currentPos, history, undefined>>
  BY <1>4 DEF Changed
<1>6. currentItem' = MediaAt(resources', currentPos)
  <2>1. CASE currentPos >= 0
    BY <1>1, <1>4, <2>1 DEF Changed, ChangedAt, Count
  <2>2. CASE currentPos < 0
    <3>1. currentItem' = currentItem
      BY <1>1, <1>4, <2>2 DEF Changed, ChangedAt
    <3>2. currentPos \notin 0 .. Len(resources) - 1 /\ currentPos \notin 0 .. Len(resources') - 1
      BY <1>1, <2>2
    <3>3. currentItem = Null
      BY <1>4, <3>2 DEF IInv, PlayerHasCurrentItem, MediaAt, Count
    <3> QED
      BY <3>1, <3>2, <3>3 DEF MediaAt, Count
  <2> QED
    BY <1>1, <2>1, <2>2
<1>7. activated' = currentItem'
  BY <1>4 DEF Changed, IInv, PlayerHasCurrentItem
<1>8. currentItem' \in Media \cup {Null}
  BY <1>3, <1>6, MediaAtFacts
<1>9. currentPos' \in PositionsOf(resources')
  BY <1>1, <1>3, <1>5 DEF PositionsOf
<1>10. Types'
  BY <1>3, <1>4, <1>5, <1>7, <1>8, <1>9 DEF IInv, Types
<1> QED
  BY <1>4, <1>5, <1>6, <1>7, <1>10 DEF IInv, PlayerHasCurrentItem, HistoryPresent, TrailKept
-----------------------------------------------------------------------------
\* Going on, going back and asking are answered from the history in random
\* playback of some items, and without touching it otherwise.
LEMMA ItemPosFacts ==
  ASSUME IInv, NEW way, NEW steps \in Nat, NEW n \in ItemPos(way, steps)
  PROVE  \/ /\ playbackMode = "Random" /\ resources # <<>> /\ steps # 0
            /\ n \in Random(IF way = "next" THEN steps ELSE 0 - steps)
         \/ /\ playbackMode # "Random" \/ resources = <<>> \/ steps = 0
            /\ n.history = history
<1>1. Len(resources) \in Nat /\ playbackMode \in AllModes /\ (resources = <<>> <=> Len(resources) = 0)
  BY DEF IInv, Types
<1>2. CASE playbackMode = "Random" /\ resources # <<>> /\ steps # 0
  BY <1>1, <1>2 DEF ItemPos, Count
<1>3. CASE playbackMode # "Random" \/ resources = <<>> \/ steps = 0
  BY <1>1, <1>3 DEF ItemPos, Count, Stays, AllModes
<1> QED
  BY <1>2, <1>3

\* The answer in random playback is an entry of the history, whose present
\* entry is still the position and which still holds the trail.
LEMMA RandomKeepsTrail ==
  ASSUME IInv, ~undefined, playbackMode = "Random", resources # <<>>,
         NEW d \in Int, d # 0, NEW n \in Random(d)
  PROVE  LET k == n.history
         IN  /\ k \in Histories
             /\ k.offset \in 0 .. Len(k.positions) - 1
             /\ k.offset + d \in 0 .. Len(k.positions) - 1
             /\ k.positions[k.offset + 1] = currentPos
             /\ k.positions[k.offset + d + 1] = n.pos
             /\ n.pos \in 0 .. Len(resources) - 1
             /\ trail = <<>> \/ Len(trail) <= k.offset
             /\ \A i \in 1 .. Len(trail) :
                  trail[i] # -1 => k.positions[k.offset - Len(trail) + i] = trail[i]
<1> DEFINE b == Begun(history)
           h == Padded(b, d)
           k == n.history
<1>1. /\ b \in Histories
      /\ b.offset \in 0 .. Len(b.positions) - 1
      /\ b.positions[b.offset + 1] = currentPos
      /\ history.offset # -1 => b = history
  BY BegunFacts DEF IInv
<1> HIDE DEF b
<1>2. /\ h \in Histories
      /\ h.offset \in 0 .. Len(h.positions) - 1
      /\ h.offset + d \in 0 .. Len(h.positions) - 1
      /\ h.offset >= b.offset
      /\ \A j \in 1 .. b.offset + 1 : h.positions[h.offset - b.offset + j] = b.positions[j]
  BY <1>1, PaddedFacts
<1>3. /\ n.pos \in 0 .. Len(resources) - 1
      /\ h.positions[h.offset + d + 1] \in 0 .. Len(resources) - 1
           => n.pos = h.positions[h.offset + d + 1]
      /\ k \in Histories
      /\ k.offset = h.offset
      /\ Len(k.positions) = Len(h.positions)
      /\ k.positions[h.offset + d + 1] = n.pos
      /\ \A j \in 1 .. Len(h.positions) :
           j # h.offset + d + 1 => k.positions[j] = h.positions[j]
  BY RandomFacts DEF IInv, b
<1> HIDE DEF h, k
<1>4. PICK P \in Seq(Int), o \in Int, Q \in Seq(Int), B \in Seq(Int), c \in Int :
        /\ h.positions = P /\ h.offset = o
        /\ k.positions = Q /\ k.offset = o
        /\ b.positions = B /\ b.offset = c
  BY <1>1, <1>2, <1>3 DEF Histories
<1> DEFINE t == Len(trail)
<1>5. /\ Len(P) \in Nat /\ t \in Nat /\ Len(resources) \in Nat
      /\ trail = <<>> <=> t = 0
  BY DEF IInv, Types
<1>6. /\ c \in 0 .. Len(B) - 1 /\ B[c + 1] = currentPos
      /\ o \in 0 .. Len(P) - 1 /\ o + d \in 0 .. Len(P) - 1 /\ o >= c
      /\ \A j \in 1 .. c + 1 : P[o - c + j] = B[j]
  BY <1>1, <1>2, <1>4
<1>7. /\ n.pos \in 0 .. Len(resources) - 1
      /\ P[o + d + 1] \in 0 .. Len(resources) - 1 => n.pos = P[o + d + 1]
      /\ Len(Q) = Len(P)
      /\ Q[o + d + 1] = n.pos
      /\ \A j \in 1 .. Len(P) : j # o + d + 1 => Q[j] = P[j]
  BY <1>3, <1>4
<1>8. trail # <<>> =>
        /\ t <= c
        /\ \A i \in 1 .. t : trail[i] # -1 => B[c - t + i] = trail[i]
  <2> SUFFICES ASSUME trail # <<>>
               PROVE  t <= c /\ \A i \in 1 .. t : trail[i] # -1 => B[c - t + i] = trail[i]
    OBVIOUS
  <2>1. /\ t <= history.offset
        /\ \A i \in 1 .. t :
             trail[i] # -1 => history.positions[history.offset - t + i] = trail[i]
    BY DEF IInv, TrailKept
  <2>2. history.offset # -1
    BY <1>5, <2>1
  <2>3. history.positions = B /\ history.offset = c
    BY <1>1, <1>4, <2>2
  <2> QED
    BY <2>1, <2>3
<1> HIDE DEF t
<1>9. Q[o + 1] = currentPos
  <2>1. c + 1 \in 1 .. c + 1 /\ o - c + (c + 1) = o + 1
    BY <1>6
  <2>2. P[o + 1] = currentPos
    BY <1>6, <2>1
  <2>3. o + 1 \in 1 .. Len(P) /\ o + 1 # o + d + 1
    BY <1>5, <1>6
  <2> QED
    BY <1>7, <2>2, <2>3
<1>10. ASSUME NEW i \in 1 .. t, trail[i] # -1
       PROVE  Q[o - t + i] = trail[i]
  <2>1. t <= c /\ B[c - t + i] = trail[i]
    BY <1>5, <1>8, <1>10
  <2>2. c - t + i \in 1 .. c + 1 /\ o - c + (c - t + i) = o - t + i
    BY <1>5, <1>6, <2>1
  <2>3. P[o - t + i] = trail[i]
    BY <1>6, <2>1, <2>2
  <2>4. trail[i] \in 0 .. Len(resources) - 1
    <3>1. trail[i] \in PositionsOf(resources)
      BY DEF IInv, Types, t
    <3> QED
      BY <1>5, <1>10, <3>1 DEF PositionsOf
  <2>5. o - t + i = o + d + 1 => Q[o - t + i] = trail[i]
    BY <1>7, <2>3, <2>4
  <2>6. o - t + i \in 1 .. Len(P)
    <3>1. c <= o /\ o < Len(P)
      BY <1>5, <1>6
    <3> QED
      BY <1>5, <2>1, <3>1
  <2>7. o - t + i # o + d + 1 => Q[o - t + i] = trail[i]
    BY <1>7, <2>3, <2>6
  <2> QED
    BY <2>5, <2>7
<1>11. trail = <<>> \/ t <= o
  BY <1>5, <1>6, <1>8
<1>12. k \in Histories
  BY <1>3
<1> QED
  BY <1>4, <1>6, <1>7, <1>9, <1>10, <1>11, <1>12 DEF k, t

\* Asking where random playback leads draws no position on the trail anew.
LEMMA AskKeepsIInv ==
  ASSUME IInv, NEW way \in {"next", "previous"}, NEW steps, Ask(way, steps)
  PROVE  IInv'
<1> DEFINE d == IF way = "next" THEN steps ELSE 0 - steps
<1>1. steps \in Nat /\ d \in Int /\ (steps # 0 => d # 0)
  BY BoundsAssumption DEF Ask
<1>2. PICK n \in ItemPos(way, steps) : history' = n.history
  BY DEF Ask
<1>3. /\ UNCHANGED <<resources, currentPos, currentItem, playbackMode, activated, trail, undefined>>
      /\ ~undefined
  BY DEF Ask
<1>4. \/ /\ playbackMode = "Random" /\ resources # <<>> /\ steps # 0
         /\ n \in Random(d)
      \/ n.history = history
  BY <1>1, ItemPosFacts
<1> HIDE DEF d
<1>5. CASE playbackMode = "Random" /\ resources # <<>> /\ steps # 0 /\ n \in Random(d)
  <2> DEFINE k == n.history
  <2>1. /\ k \in Histories
        /\ k.offset \in 0 .. Len(k.positions) - 1
        /\ k.positions[k.offset + 1] = currentPos
        /\ trail = <<>> \/ Len(trail) <= k.offset
        /\ \A i \in 1 .. Len(trail) :
             trail[i] # -1 => k.positions[k.offset - Len(trail) + i] = trail[i]
    BY <1>1, <1>3, <1>5, RandomKeepsTrail
  <2>2. history' = k
    BY <1>2
  <2> HIDE DEF k
  <2>3. k.offset # -1 /\ k.offset \in -1 .. Len(k.positions) - 1
    BY <2>1 DEF Histories
  <2>4. Types'
    BY <1>3, <2>1, <2>2, <2>3 DEF IInv, Types
  <2>5. PlayerHasCurrentItem' /\ HistoryPresent'
    BY <1>3, <1>5, <2>1, <2>2, <2>3 DEF IInv, PlayerHasCurrentItem, HistoryPresent
  <2>6. TrailKept'
    BY <1>3, <2>1, <2>2 DEF TrailKept
  <2> QED
    BY <2>4, <2>5, <2>6 DEF IInv
<1>6. CASE n.history = history
  BY <1>2, <1>3, <1>6 DEF IInv, Types, PlayerHasCurrentItem, HistoryPresent, TrailKept
<1> QED
  BY <1>4, <1>5, <1>6

\* A step on or back in random playback of some items ends at the answer,
\* with the history's present entry moved there.
LEMMA RandomStepFacts ==
  ASSUME IInv, ~undefined, playbackMode = "Random", resources # <<>>,
         NEW by \in {-1, 1}, NEW n \in Random(by),
         Jump(resources, n.pos, currentPos, Advanced(n.history, by))
  PROVE  /\ currentPos' = n.pos
         /\ history'.positions = n.history.positions
         /\ history'.offset = n.history.offset + by
         /\ Advanced(n.history, by) \in Histories
<1> DEFINE k == n.history
           h == Advanced(k, by)
<1>1. by \in Int /\ by # 0
  OBVIOUS
<1>2. /\ k \in Histories
      /\ k.offset + by \in 0 .. Len(k.positions) - 1
      /\ k.positions[k.offset + by + 1] = n.pos
      /\ n.pos \in 0 .. Len(resources) - 1
  BY <1>1, RandomKeepsTrail
<1> HIDE DEF k
<1>3. h = [k EXCEPT !.offset = k.offset + by]
  BY DEF Advanced
<1>4. h \in Histories /\ h.positions = k.positions /\ h.offset = k.offset + by
  BY <1>1, <1>2, <1>3 DEF Histories
<1> HIDE DEF h
<1>5. Within(resources, n.pos) = n.pos
  BY <1>2 DEF Within, Count
<1>6. h.offset \in 0 .. Len(h.positions) - 1 /\ h.positions[h.offset + 1] = n.pos
  BY <1>2, <1>4
<1>7. Jump(resources, n.pos, currentPos, h)
  BY DEF h, k
<1>8. currentPos' = n.pos /\ history' = HistoryMatching(h, n.pos)
  BY <1>5, <1>6, <1>7 DEF Jump
<1>9. history' = h
  BY <1>6, <1>8 DEF HistoryMatching
<1> QED
  BY <1>4, <1>8, <1>9 DEF h, k

\* The same without items or in the other modes.
LEMMA PlainStepFacts ==
  ASSUME IInv, NEW by \in {-1, 1}
  PROVE  /\ Advanced(history, by) \in Histories
         /\ playbackMode # "Random" => Advanced(history, by) = history
<1>1. history \in Histories /\ by \in Int
  BY DEF IInv, Types
<1>2. [history EXCEPT !.offset = history.offset + by] \in Histories
  BY <1>1 DEF Histories
<1> QED
  BY <1>1, <1>2 DEF Advanced

\* Going on adds the position to the trail, and the history keeps it.
LEMMA AdvanceKeepsIInv ==
  ASSUME IInv, Advance
  PROVE  IInv'
<1>1. PICK n \in ItemPos("next", 1) :
        Jump(resources, n.pos, currentPos, Advanced(n.history, 1))
  BY DEF Advance
<1>2. /\ ~undefined /\ resources' = resources /\ playbackMode' = playbackMode
      /\ trail' = IF playbackMode = "Random" THEN Append(trail, currentPos) ELSE <<>>
  BY DEF Advance
<1>3. /\ resources \in Seq(Media) /\ currentPos \in PositionsOf(resources)
      /\ trail \in Seq(PositionsOf(resources)) /\ Len(trail) \in Nat
  BY DEF IInv, Types
<1>4. /\ trail' \in Seq(PositionsOf(resources))
      /\ playbackMode = "Random" =>
           /\ trail' # <<>> /\ Len(trail') = Len(trail) + 1
           /\ \A i \in 1 .. Len(trail) : trail'[i] = trail[i]
           /\ trail'[Len(trail) + 1] = currentPos
  BY <1>2, <1>3, AppendProperties
<1>5. \/ /\ playbackMode = "Random" /\ resources # <<>>
         /\ n \in Random(1)
      \/ /\ playbackMode # "Random" \/ resources = <<>>
         /\ n.history = history
  BY ItemPosFacts
<1>6. CASE playbackMode = "Random" /\ resources # <<>> /\ n \in Random(1)
  <2> DEFINE k == n.history
             t == Len(trail)
  <2>1. /\ k \in Histories
        /\ k.offset \in 0 .. Len(k.positions) - 1
        /\ k.positions[k.offset + 1] = currentPos
        /\ trail = <<>> \/ t <= k.offset
        /\ \A i \in 1 .. t : trail[i] # -1 => k.positions[k.offset - t + i] = trail[i]
    BY <1>2, <1>6, RandomKeepsTrail
  <2>2. /\ history'.positions = k.positions
        /\ history'.offset = k.offset + 1
        /\ Advanced(k, 1) \in Histories
    BY <1>1, <1>2, <1>6, RandomStepFacts
  <2>3. Types' /\ PlayerHasCurrentItem' /\ HistoryPresent'
    BY <1>1, <1>2, <1>3, <1>4, <1>6, <2>2, JumpFacts
  <2> HIDE DEF k
  <2>4. k.offset \in Int /\ t \in Nat /\ (trail = <<>> => t = 0)
    BY <1>3, <2>1 DEF Histories
  <2>5. Len(trail') <= history'.offset
    BY <1>4, <1>6, <2>1, <2>2, <2>4
  <2>6. ASSUME NEW i \in 1 .. t + 1, trail'[i] # -1
        PROVE  k.positions[k.offset + 1 - (t + 1) + i] = trail'[i]
    <3>1. CASE i = t + 1
      <4>1. k.offset + 1 - (t + 1) + i = k.offset + 1
        BY <2>4, <3>1
      <4> QED
        BY <1>4, <1>6, <2>1, <3>1, <4>1
    <3>2. CASE i # t + 1
      <4>1. i \in 1 .. t /\ k.offset + 1 - (t + 1) + i = k.offset - t + i
        BY <2>4, <3>2
      <4> QED
        BY <1>4, <1>6, <2>1, <2>6, <4>1
    <3> QED
      BY <3>1, <3>2
  <2>7. ASSUME NEW i \in 1 .. Len(trail'), trail'[i] # -1
        PROVE  history'.positions[history'.offset - Len(trail') + i] = trail'[i]
    <3>1. Len(trail') = t + 1
      BY <1>4, <1>6
    <3>2. history'.offset - Len(trail') + i = k.offset + 1 - (t + 1) + i
      BY <2>2, <2>4, <3>1
    <3>3. k.positions[k.offset + 1 - (t + 1) + i] = trail'[i]
      BY <2>6, <2>7, <3>1
    <3> QED
      BY <2>2, <3>2, <3>3
  <2>8. TrailKept'
    BY <2>5, <2>7 DEF TrailKept
  <2> QED
    BY <2>3, <2>8 DEF IInv
<1>7. CASE (playbackMode # "Random" \/ resources = <<>>) /\ n.history = history
  <2>1. /\ Advanced(n.history, 1) \in Histories
        /\ Advanced(n.history, 1) = history \/ (playbackMode = "Random" /\ resources = resources)
    BY <1>7, PlainStepFacts
  <2>2. Types' /\ PlayerHasCurrentItem' /\ HistoryPresent'
    BY <1>1, <1>2, <1>3, <1>4, <2>1, JumpFacts
  <2>3. TrailKept'
    BY <1>2, <1>7 DEF TrailKept
  <2> QED
    BY <2>2, <2>3 DEF IInv
<1> QED
  BY <1>5, <1>6, <1>7

\* Going back takes the last position off the trail and leads there.
LEMMA RetreatKeepsIInv ==
  ASSUME IInv, Retreat
  PROVE  IInv' /\ (~undefined' /\ trail # <<>> /\ Last(trail) # -1 => currentPos' = Last(trail))
<1>1. PICK n \in ItemPos("previous", 1) :
        Jump(resources, n.pos, currentPos, Advanced(n.history, -1))
  BY DEF Retreat
<1>2. /\ ~undefined /\ resources' = resources /\ playbackMode' = playbackMode
      /\ trail' = IF trail = <<>> THEN <<>> ELSE Front(trail)
  BY DEF Retreat
<1>3. /\ resources \in Seq(Media) /\ Len(resources) \in Nat
      /\ resources = <<>> => Len(resources) = 0
      /\ trail \in Seq(PositionsOf(resources)) /\ Len(trail) \in Nat
      /\ trail = <<>> <=> Len(trail) = 0
  BY DEF IInv, Types
<1>4. /\ trail' \in Seq(PositionsOf(resources))
      /\ trail # <<>> =>
           /\ Len(trail') = Len(trail) - 1
           /\ \A i \in 1 .. Len(trail) - 1 : trail'[i] = trail[i]
  <2>1. CASE trail = <<>>
    BY <1>2, <2>1
  <2>2. CASE trail # <<>>
    <3>1. \A i \in 1 .. Len(trail) - 1 : trail[i] \in PositionsOf(resources)
      BY <1>3
    <3>2. trail' = SubSeq(trail, 1, Len(trail) - 1)
      BY <1>2, <2>2 DEF Front
    <3>3. /\ trail' \in Seq(PositionsOf(resources))
          /\ Len(trail') = IF 1 <= Len(trail) - 1 THEN Len(trail) - 1 - 1 + 1 ELSE 0
          /\ \A i \in 1 .. Len(trail) - 1 - 1 + 1 : trail'[i] = trail[1 + i - 1]
      BY <1>3, <3>1, <3>2, SubSeqProperties
    <3>4. Len(trail') = Len(trail) - 1
      <4>1. Len(trail) \in Nat /\ Len(trail) # 0
        BY <1>3, <2>2
      <4>2. Len(trail') = IF 1 <= Len(trail) - 1 THEN Len(trail) - 1 - 1 + 1 ELSE 0
        BY <3>3
      <4> QED
        BY <4>1, <4>2
    <3>5. ASSUME NEW i \in 1 .. Len(trail) - 1
          PROVE  trail'[i] = trail[i]
      <4>1. i \in 1 .. Len(trail) - 1 - 1 + 1 /\ 1 + i - 1 = i
        BY <1>3
      <4> QED
        BY <3>3, <4>1
    <3> QED
      BY <3>3, <3>4, <3>5
  <2> QED
    BY <2>1, <2>2
<1>5. \/ /\ playbackMode = "Random" /\ resources # <<>>
         /\ n \in Random(-1)
      \/ /\ playbackMode # "Random" \/ resources = <<>>
         /\ n.history = history
  BY ItemPosFacts
<1>6. CASE playbackMode = "Random" /\ resources # <<>> /\ n \in Random(-1)
  <2> DEFINE k == n.history
             t == Len(trail)
  <2>1. /\ k \in Histories
        /\ k.offset \in 0 .. Len(k.positions) - 1
        /\ k.positions[k.offset + -1 + 1] = n.pos
        /\ trail = <<>> \/ t <= k.offset
        /\ \A i \in 1 .. t : trail[i] # -1 => k.positions[k.offset - t + i] = trail[i]
    BY <1>2, <1>6, RandomKeepsTrail
  <2>2. /\ currentPos' = n.pos
        /\ history'.positions = k.positions
        /\ history'.offset = k.offset + -1
        /\ Advanced(k, -1) \in Histories
    BY <1>1, <1>2, <1>6, RandomStepFacts
  <2>3. Types' /\ PlayerHasCurrentItem' /\ HistoryPresent'
    BY <1>1, <1>2, <1>3, <1>4, <1>6, <2>2, JumpFacts
  <2> HIDE DEF k
  <2>4. k.offset \in Int /\ t \in Nat
    BY <1>3, <2>1 DEF Histories
  <2>5. trail' = <<>> \/ Len(trail') <= history'.offset
    <3>1. CASE trail = <<>>
      BY <1>2, <3>1
    <3>2. CASE trail # <<>>
      BY <1>4, <2>1, <2>2, <2>4, <3>2
    <3> QED
      BY <3>1, <3>2
  <2>6. ASSUME NEW i \in 1 .. Len(trail'), trail'[i] # -1
        PROVE  history'.positions[history'.offset - Len(trail') + i] = trail'[i]
    <3>1. trail # <<>>
      BY <1>2
    <3>2. i \in 1 .. t - 1 /\ trail'[i] = trail[i] /\ Len(trail') = t - 1
      BY <1>4, <3>1
    <3>3. i \in 1 .. t /\ k.offset + -1 - (t - 1) + i = k.offset - t + i
      BY <2>4, <3>2
    <3> QED
      BY <2>1, <2>2, <2>6, <3>2, <3>3
  <2>7. TrailKept'
    BY <2>5, <2>6 DEF TrailKept
  <2>8. trail # <<>> /\ Last(trail) # -1 => currentPos' = Last(trail)
    <3> SUFFICES ASSUME trail # <<>>, trail[t] # -1
                 PROVE  n.pos = trail[t]
      BY <2>2 DEF Last
    <3>1. t \in 1 .. t /\ k.offset - t + t = k.offset + -1 + 1
      BY <1>3, <2>4
    <3> QED
      BY <2>1, <3>1
  <2> QED
    BY <2>3, <2>7, <2>8 DEF IInv
<1>7. CASE (playbackMode # "Random" \/ resources = <<>>) /\ n.history = history
  <2>1. /\ Advanced(n.history, -1) \in Histories
        /\ Advanced(n.history, -1) = history \/ (playbackMode = "Random" /\ resources = resources)
    BY <1>7, PlainStepFacts
  <2>2. Types' /\ PlayerHasCurrentItem' /\ HistoryPresent'
    BY <1>1, <1>2, <1>3, <1>4, <2>1, JumpFacts
  <2>3. resources = <<>> \/ trail = <<>>
    BY <1>2, <1>3, <1>7 DEF IInv, Types, HistoryPresent, TrailKept
  <2>4. TrailKept'
    BY <1>2, <2>3 DEF TrailKept
  <2>5. trail # <<>> => Last(trail) = -1
    <3> SUFFICES ASSUME trail # <<>> PROVE trail[Len(trail)] = -1
      BY DEF Last
    <3>1. resources = <<>> /\ Len(trail) \in 1 .. Len(trail)
      BY <1>3, <2>3
    <3>2. trail[Len(trail)] \in -1 .. Len(resources) - 1
      BY <1>3, <3>1 DEF PositionsOf
    <3> QED
      BY <1>3, <3>1, <3>2
  <2> QED
    BY <2>2, <2>4, <2>5 DEF IInv
<1> QED
  BY <1>5, <1>6, <1>7
-----------------------------------------------------------------------------
\* Division: a multiple of the divisor makes no difference,
LEMMA Multiple ==
  ASSUME NEW x \in Int, NEW n \in Nat \ {0}, NEW k \in Int
  PROVE  (x + n * k) % n = x % n
<1> DEFINE q == x \div n
           r == x % n
           p == q + k
           y == x + n * k
<1>1. q \in Int /\ r \in 0 .. n - 1
  OBVIOUS
<1>2. r = x - n * q
  OBVIOUS
<1> HIDE DEF q, r
<1>3. y = n * p + r /\ p \in Int /\ y \in Int
  BY <1>1, <1>2
<1> HIDE DEF p, y
<1>4. y % n = r
  BY <1>1, <1>3
<1> QED
  BY <1>4 DEF r, y

\* so that going on from a remainder leads where going on from the number leads.
LEMMA Wraps ==
  ASSUME NEW x \in Int, NEW y \in Int, NEW n \in Nat \ {0}
  PROVE  ((x % n) + y) % n = (x + y) % n
<1> DEFINE q == x \div n
           r == x % n
           z == r + y
<1>1. q \in Int /\ r \in 0 .. n - 1
  OBVIOUS
<1>2. r = x - n * q
  OBVIOUS
<1> HIDE DEF q, r
<1>3. x + y = z + n * q /\ z \in Int
  BY <1>1, <1>2
<1> HIDE DEF z
<1>4. (z + n * q) % n = z % n
  BY <1>1, <1>3, Multiple
<1> QED
  BY <1>3, <1>4 DEF r, z

\* Whatever else is done ends the promise.
LEMMA DisturbedPromise ==
  ASSUME promise' = NoPromise
  PROVE  PromiseTypes' /\ PromiseHeld' /\ PromiseIsKept'
<1>1. /\ promise' \in [way : {"none", "next", "previous"}, left : -1 .. MaxSteps, pos : Int,
                  ended : BOOLEAN]
      /\ promise'.left = -1
  BY BoundsAssumption DEF NoPromise
<1> QED
  BY <1>1 DEF PromiseTypes, PromiseHeld, PromiseIsKept

\* What nextIndex() and previousIndex() answer is where the steps lead.
LEMMA AskPromise ==
  ASSUME PInv, NEW way \in {"next", "previous"}, NEW steps, Ask(way, steps)
  PROVE  PromiseTypes' /\ PromiseHeld' /\ PromiseIsKept'
<1> DEFINE d == IF way = "next" THEN steps ELSE 0 - steps
           N == Len(resources)
           base == IF way = "previous" /\ currentPos = -1 THEN N ELSE currentPos
<1>1. PICK n \in ItemPos(way, steps) :
        /\ history' = n.history
        /\ promise' = [way |-> way, left |-> steps, pos |-> n.pos, ended |-> FALSE]
  BY DEF Ask
<1>2. /\ UNCHANGED <<resources, currentPos, playbackMode, undefined>>
      /\ ~undefined /\ steps \in 0 .. MaxSteps
  BY DEF Ask
<1>3. /\ IInv /\ N \in Nat /\ currentPos \in -1 .. N - 1 /\ playbackMode \in AllModes
      /\ (resources = <<>> <=> N = 0)
  BY DEF PInv, IInv, Types, PositionsOf
<1>4. steps \in Nat /\ steps \in Int /\ d \in Int /\ (steps # 0 => steps > 0 /\ d # 0)
  BY <1>2, BoundsAssumption
<1>5. /\ promise'.way = way /\ promise'.left = steps /\ promise'.pos = n.pos
      /\ promise'.ended = FALSE
  BY <1>1
<1>6. Distance' = d /\ Base(resources)' = base
  BY <1>2, <1>5 DEF Distance, Base
<1>7. n.pos \in Int => PromiseTypes'
  <2>1. steps \in -1 .. MaxSteps
    BY <1>2, BoundsAssumption
  <2> QED
    BY <1>1, <2>1 DEF PromiseTypes
<1>8. CASE steps = 0
  <2>1. n.pos = currentPos
    BY <1>3, <1>8 DEF ItemPos, Stays, Count
  <2> QED
    BY <1>2, <1>3, <1>5, <1>7, <1>8, <2>1 DEF PromiseHeld, PromiseIsKept
<1>9. CASE steps # 0 /\ (N = 0 \/ playbackMode = "CurrentItemOnce")
  <2>1. n.pos = -1
    BY <1>3, <1>4, <1>9 DEF ItemPos, Stays, Count
  <2>2. LeadsToNone'
    BY <1>2, <1>3, <1>5, <1>9, <2>1 DEF LeadsToNone
  <2> QED
    BY <1>4, <1>5, <1>7, <1>9, <2>1, <2>2 DEF PromiseHeld, PromiseIsKept, Leads
<1>10. CASE steps # 0 /\ n.pos = -1 /\ N # 0 /\ playbackMode = "CurrentItemInLoop"
  <2>1. n.pos = currentPos
    BY <1>3, <1>4, <1>10 DEF ItemPos, Stays, Count
  <2>2. LeadsToNone'
    BY <1>2, <1>5, <1>10, <2>1 DEF LeadsToNone
  <2> QED
    BY <1>4, <1>5, <1>7, <1>10, <2>2 DEF PromiseHeld, PromiseIsKept, Leads
<1>11. CASE steps # 0 /\ n.pos = -1 /\ N # 0 /\ playbackMode = "Sequential"
  <2>1. n.pos = IF way = "next" THEN SequenceOn(N, steps) ELSE SequenceBack(N, steps)
    BY <1>3, <1>4, <1>11 DEF ItemPos, Stays, Count
  <2>2. d + base \notin 0 .. N - 1
    <3> HIDE DEF N
    <3>1. CASE way = "next"
      BY <1>3, <1>4, <1>11, <2>1, <3>1 DEF SequenceOn
    <3>2. CASE way = "previous"
      BY <1>3, <1>4, <1>11, <2>1, <3>2 DEF SequenceBack
    <3> QED
      BY <3>1, <3>2
  <2> HIDE DEF d, base
  <2>3. LeadsToNone'
    BY <1>2, <1>5, <1>6, <1>11, <2>2 DEF LeadsToNone
  <2> QED
    BY <1>4, <1>5, <1>7, <1>11, <2>3 DEF PromiseHeld, PromiseIsKept, Leads
<1>12. CASE /\ steps # 0 /\ N # 0 /\ playbackMode # "CurrentItemOnce"
            /\ ~(n.pos = -1 /\ playbackMode \in {"CurrentItemInLoop", "Sequential"})
  <2>3. /\ n.pos \in 0 .. N - 1
        /\ playbackMode = "CurrentItemInLoop" => n.pos = currentPos
        /\ playbackMode = "Sequential" =>
             n.pos = d + base
        /\ playbackMode = "Loop" => n.pos = (currentPos + d) % N
        /\ playbackMode = "Random" =>
             /\ n.history.offset # -1
             /\ n.history.offset + d \in 0 .. Len(n.history.positions) - 1
             /\ n.history.positions[n.history.offset + d + 1] = n.pos
    <3>1. CASE playbackMode = "CurrentItemInLoop"
      <4>1. n.pos = currentPos
        BY <1>3, <1>4, <1>12, <3>1 DEF ItemPos, Stays, Count
      <4> QED
        BY <1>3, <1>12, <3>1, <4>1
    <3>2. CASE playbackMode = "Sequential"
      <4>1. n.pos = IF way = "next" THEN SequenceOn(N, steps) ELSE SequenceBack(N, steps)
        BY <1>3, <1>4, <1>12, <3>2 DEF ItemPos, Stays, Count
      <4> HIDE DEF N
      <4>2. CASE way = "next"
        BY <1>3, <1>4, <1>12, <3>2, <4>1, <4>2 DEF SequenceOn
      <4>3. CASE way = "previous"
        BY <1>3, <1>4, <1>12, <3>2, <4>1, <4>3 DEF SequenceBack
      <4> QED
        BY <4>2, <4>3
    <3>3. CASE playbackMode = "Loop"
      <4>1. n.pos = IF way = "next" THEN (currentPos + steps) % N ELSE LoopBack(N, steps)
        BY <1>3, <1>4, <1>12, <3>3 DEF ItemPos, Stays, Count
      <4>2. n.pos = (currentPos + d) % N
        <5> HIDE DEF N
        <5>1. currentPos - steps = currentPos + (0 - steps)
          BY <1>3, <1>4
        <5> QED
          BY <4>1, <5>1 DEF LoopBack
      <4>3. currentPos + d \in Int /\ N \in Nat \ {0}
        BY <1>3, <1>4, <1>12
      <4> HIDE DEF N, d
      <4>4. n.pos \in 0 .. N - 1
        BY <4>2, <4>3
      <4> QED
        BY <3>3, <4>2, <4>4
    <3>4. CASE playbackMode = "Random"
      <4>1. n \in Random(d)
        BY <1>3, <1>4, <1>12, <3>4, ItemPosFacts
      <4> HIDE DEF d
      <4>2. /\ n.history \in Histories
            /\ n.history.offset \in 0 .. Len(n.history.positions) - 1
            /\ n.history.offset + d \in 0 .. Len(n.history.positions) - 1
            /\ n.history.positions[n.history.offset + d + 1] = n.pos
            /\ n.pos \in 0 .. N - 1
        BY <1>2, <1>3, <1>4, <1>12, <3>4, <4>1, RandomKeepsTrail
      <4>3. n.history.offset # -1
        BY <4>2 DEF Histories
      <4> QED
        BY <3>4, <4>2, <4>3
    <3> QED
      BY <1>3, <1>12, <3>1, <3>2, <3>3, <3>4 DEF AllModes
  <2> HIDE DEF d, base
  <2>6. LeadsToItem'
    BY <1>1, <1>2, <1>5, <1>6, <1>12, <2>3 DEF LeadsToItem
  <2> QED
    BY <1>3, <1>4, <1>5, <1>7, <1>12, <2>3, <2>6 DEF PromiseHeld, PromiseIsKept, Leads
<1> QED
  BY <1>3, <1>8, <1>9, <1>10, <1>11, <1>12 DEF AllModes

\* A step in the direction of the promise, outside random playback.
LEMMA PlainStepLeads ==
  ASSUME PInv, LeadsToItem, ~undefined, playbackMode # "Random",
         NEW way \in {"next", "previous"}, promise.way = way, promise.left > 0,
         NEW by \in {-1, 1}, by = 1 <=> way = "next",
         NEW n \in ItemPos(way, 1),
         Jump(resources, n.pos, currentPos, Advanced(n.history, by))
  PROVE  LET l == promise.left - 1
             d == IF way = "next" THEN l ELSE 0 - l
         IN /\ l = 0 => currentPos' = promise.pos
            /\ playbackMode = "CurrentItemInLoop" => promise.pos = currentPos'
            /\ playbackMode = "Sequential" => promise.pos = d + currentPos' /\ currentPos' # -1
            /\ playbackMode = "Loop" => promise.pos = (currentPos' + d) % Len(resources)
<1> DEFINE N == Len(resources)
           l == promise.left - 1
           d == IF way = "next" THEN l ELSE 0 - l
           to == promise.pos
<1>1. /\ N \in Nat /\ currentPos \in -1 .. N - 1 /\ playbackMode \in AllModes
      /\ promise.left \in Int /\ promise.left > 0
  BY DEF PInv, IInv, Types, PositionsOf, PromiseTypes
<1>2. /\ to \in 0 .. N - 1 /\ playbackMode # "CurrentItemOnce"
      /\ playbackMode = "CurrentItemInLoop" => to = currentPos
      /\ playbackMode = "Sequential" =>
           to = Distance + IF way = "previous" /\ currentPos = -1 THEN N ELSE currentPos
      /\ playbackMode = "Loop" => to = (currentPos + Distance) % N
  BY DEF LeadsToItem, Base
<1>3. currentPos' = Within(resources, n.pos)
  BY DEF Jump
<1>4. N > 0 /\ l \in Int /\ d \in Int /\ l >= 0
  BY <1>1, <1>2
<1>5. Distance = d + by
  BY <1>1, <1>4 DEF Distance
<1>6. n.pos \in 0 .. N - 1 => currentPos' = n.pos
  BY <1>3 DEF Within, Count
<1>7. CASE playbackMode = "CurrentItemInLoop"
  <2>1. n.pos = currentPos
    BY <1>4, <1>7 DEF ItemPos, Stays, Count
  <2> QED
    BY <1>2, <1>6, <1>7, <2>1
<1>8. CASE playbackMode = "Sequential"
  <2>1. n.pos = IF way = "next" THEN SequenceOn(N, 1) ELSE SequenceBack(N, 1)
    BY <1>4, <1>8 DEF ItemPos, Stays, Count
  <2> HIDE DEF N, to
  <2>2. CASE way = "next"
    <3>1. to = currentPos + 1 + l
      BY <1>1, <1>2, <1>4, <1>5, <1>8, <2>2
    <3> HIDE DEF l
    <3>2. currentPos + 1 < N /\ currentPos + 1 \in 0 .. N - 1
      BY <1>1, <1>2, <1>4, <3>1
    <3>3. currentPos' = currentPos + 1
      BY <1>6, <2>1, <2>2, <3>2 DEF SequenceOn
    <3>4. d = l
      BY <2>2
    <3> HIDE DEF d
    <3>5. (l = 0 => currentPos' = to) /\ to = d + currentPos' /\ currentPos' # -1
      BY <1>1, <1>4, <3>1, <3>2, <3>3, <3>4
    <3> QED
      BY <1>8, <3>5 DEF to, d, l
  <2>3. CASE way = "previous"
    <3> DEFINE c == IF currentPos = -1 THEN N ELSE currentPos
    <3>1. to = c - 1 - l /\ c \in 0 .. N
      BY <1>1, <1>2, <1>4, <1>5, <1>8, <2>3
    <3>2. n.pos = IF c - 1 >= 0 THEN c - 1 ELSE -1
      BY <1>1, <2>1, <2>3 DEF SequenceBack
    <3> HIDE DEF l, c
    <3>3. c - 1 >= 0 /\ c - 1 \in 0 .. N - 1
      BY <1>1, <1>2, <1>4, <3>1
    <3>4. currentPos' = c - 1
      BY <1>6, <3>2, <3>3
    <3>5. d = 0 - l
      BY <2>3
    <3> HIDE DEF d
    <3>6. (l = 0 => currentPos' = to) /\ to = d + currentPos' /\ currentPos' # -1
      BY <1>1, <1>4, <3>1, <3>3, <3>4, <3>5
    <3> QED
      BY <1>8, <3>6 DEF to, d, l
  <2> QED
    BY <2>2, <2>3
<1>9. CASE playbackMode = "Loop"
  <2>1. n.pos = (currentPos + by) % N
    <3>1. n.pos = IF way = "next" THEN (currentPos + 1) % N ELSE LoopBack(N, 1)
      BY <1>4, <1>9 DEF ItemPos, Stays, Count
    <3>2. currentPos - 1 = currentPos + -1
      BY <1>1
    <3> HIDE DEF N
    <3> QED
      BY <3>1, <3>2 DEF LoopBack
  <2> DEFINE x == currentPos + by
  <2> HIDE DEF N, d, l, to
  <2>2. x \in Int /\ N \in Nat \ {0} /\ currentPos + Distance = x + d
    <3>1. by \in Int /\ currentPos \in Int /\ N \in Nat \ {0}
      BY <1>1, <1>4
    <3> QED
      BY <1>4, <1>5, <3>1
  <2> HIDE DEF x
  <2>3. x % N \in 0 .. N - 1
    BY <2>2
  <2>4. currentPos' = x % N
    BY <1>6, <2>1, <2>3 DEF x
  <2>5. ((x % N) + d) % N = (x + d) % N
    BY <1>4, <2>2, Wraps
  <2>6. to = (currentPos' + d) % N
    BY <1>2, <1>9, <2>2, <2>4, <2>5
  <2>7. l = 0 => currentPos' = to
    <3> SUFFICES ASSUME l = 0 PROVE currentPos' = to
      OBVIOUS
    <3>1. d = 0 /\ currentPos' \in 0 .. N - 1
      BY <2>3, <2>4 DEF d
    <3> DEFINE c == currentPos'
    <3>2. c \in 0 .. N - 1 /\ N \in Nat \ {0}
      BY <2>2, <3>1
    <3> HIDE DEF c
    <3>3. c + 0 = c /\ c % N = c
      BY <3>2
    <3> QED
      BY <2>6, <3>1, <3>3 DEF c
  <2> QED
    BY <1>9, <2>6, <2>7 DEF d, l, to, N
<1> QED
  BY <1>1, <1>2, <1>7, <1>8, <1>9 DEF AllModes

\* A step in its direction leaves the entry promised, or comes to it.
LEMMA RandomStepLeads ==
  ASSUME PInv, LeadsToItem, ~undefined, playbackMode = "Random",
         NEW way \in {"next", "previous"}, promise.way = way, promise.left > 0,
         NEW by \in {-1, 1}, by = 1 <=> way = "next",
         NEW n \in ItemPos(way, 1),
         Jump(resources, n.pos, currentPos, Advanced(n.history, by))
  PROVE  LET l == promise.left - 1
             d == IF way = "next" THEN l ELSE 0 - l
         IN /\ l = 0 => currentPos' = promise.pos
            /\ history'.offset # -1
            /\ history'.offset + d \in 0 .. Len(history'.positions) - 1
            /\ history'.positions[history'.offset + d + 1] = promise.pos
<1> DEFINE l == promise.left - 1
           d == IF way = "next" THEN l ELSE 0 - l
           to == promise.pos
           h == history
<1>1. /\ IInv /\ Types /\ HistoryPresent
      /\ promise.left \in Int /\ promise.left > 0
      /\ h \in Histories /\ h.offset \in -1 .. Len(h.positions) - 1
  BY DEF PInv, IInv, Types, PromiseTypes
<1>2. /\ to \in 0 .. Len(resources) - 1
      /\ h.offset # -1
      /\ h.offset + Distance \in 0 .. Len(h.positions) - 1
      /\ h.positions[h.offset + Distance + 1] = to
  BY DEF LeadsToItem
<1>3. resources # <<>>
  BY <1>2
<1>4. l \in Int /\ l >= 0 /\ d \in Int /\ Distance = d + by /\ by \in Int /\ by # 0
  BY <1>1 DEF Distance
<1>5. (IF way = "next" THEN 1 ELSE 0 - 1) = by
  OBVIOUS
<1>6. n \in Random(by)
  BY <1>1, <1>3, <1>5, ItemPosFacts
<1>7. /\ currentPos' = n.pos
      /\ history'.positions = n.history.positions
      /\ history'.offset = n.history.offset + by
  BY <1>1, <1>3, <1>6, RandomStepFacts
<1>8. /\ h.offset \in Int /\ Len(h.positions) \in Nat
      /\ by = 1 => d >= 0
      /\ by = -1 => d <= 0
  BY <1>1, <1>4 DEF Histories
<1>9. h.offset + by \in 0 .. Len(h.positions) - 1
  <2> DEFINE o == h.offset
             n1 == Len(h.positions) - 1
  <2> HIDE DEF l, d, h
  <2>1. o \in Int /\ n1 \in Int /\ o >= 0 /\ o <= n1
    BY <1>1, <1>2, <1>8
  <2>2. o + (d + by) >= 0 /\ o + (d + by) <= n1
    BY <1>2, <1>4, <1>8
  <2> HIDE DEF o, n1
  <2>3. CASE by = 1
    <3>1. d \in Int /\ d >= 0
      BY <1>4, <1>8, <2>3
    <3>2. o + by >= 0 /\ o + by <= n1
      BY <2>1, <2>2, <2>3, <3>1
    <3> QED
      BY <2>1, <2>3, <3>2 DEF o, n1
  <2>4. CASE by = -1
    <3>1. d \in Int /\ d <= 0
      BY <1>4, <1>8, <2>4
    <3>2. o + by >= 0 /\ o + by <= n1
      BY <2>1, <2>2, <2>4, <3>1
    <3> QED
      BY <2>1, <2>4, <3>2 DEF o, n1
  <2> QED
    BY <2>3, <2>4
<1>10. Padded(Begun(h), by) = h
  <2>1. Begun(h) = h
    BY <1>2 DEF Begun
  <2>2. ~(h.offset + by < 0) /\ h.offset + by < Len(h.positions)
    BY <1>8, <1>9
  <2> QED
    BY <2>1, <2>2 DEF Padded
<1>11. /\ h.positions[h.offset + by + 1] \in 0 .. Len(resources) - 1
            => n.pos = h.positions[h.offset + by + 1]
       /\ n.history.offset = h.offset
       /\ Len(n.history.positions) = Len(h.positions)
       /\ n.history.positions[h.offset + by + 1] = n.pos
       /\ \A j \in 1 .. Len(h.positions) :
            j # h.offset + by + 1 => n.history.positions[j] = h.positions[j]
  <2> DEFINE g == Padded(Begun(history), by)
  <2> HIDE DEF l, d, to
  <2>1. /\ g.positions[g.offset + by + 1] \in 0 .. Len(resources) - 1
             => n.pos = g.positions[g.offset + by + 1]
        /\ n.history.offset = g.offset
        /\ Len(n.history.positions) = Len(g.positions)
        /\ n.history.positions[g.offset + by + 1] = n.pos
        /\ \A j \in 1 .. Len(g.positions) :
             j # g.offset + by + 1 => n.history.positions[j] = g.positions[j]
    BY <1>1, <1>4, <1>6, RandomFacts
  <2>2. g = h
    BY <1>10
  <2> HIDE DEF g, h
  <2> QED
    BY <2>1, <2>2
<1> HIDE DEF l, d, h, to
<1>12. history'.offset = h.offset + by
  BY <1>7, <1>11
<1>13. h.offset + by + d = h.offset + Distance
  BY <1>4, <1>8
<1>14. CASE l = 0
  <2>1. d = 0 /\ Distance = by
    BY <1>4, <1>14 DEF d
  <2>2. n.pos = to
    BY <1>2, <1>11, <2>1
  <2>3. history'.offset + d + 1 = h.offset + by + 1
    BY <1>4, <1>8, <1>12, <2>1
  <2> QED
    BY <1>2, <1>7, <1>8, <1>9, <1>11, <1>12, <1>13, <2>2, <2>3 DEF l, d, to
<1>15. CASE l # 0
  <2>1. d # 0
    BY <1>4, <1>15 DEF d
  <2> DEFINE j == h.offset + Distance + 1
  <2>2. j \in 1 .. Len(h.positions) /\ j # h.offset + by + 1 /\ Distance \in Int
    <3>1. Distance \in Int
      BY <1>4
    <3>2. j \in 1 .. Len(h.positions)
      BY <1>2, <1>8, <3>1
    <3>3. Distance # by
      BY <1>4, <2>1
    <3>4. j # h.offset + by + 1
      BY <1>4, <1>8, <3>1, <3>3
    <3> QED
      BY <3>1, <3>2, <3>4
  <2>3. history'.offset + d + 1 = j
    BY <1>12, <1>13
  <2> HIDE DEF j
  <2>4. n.history.positions[j] = h.positions[j]
    BY <1>11, <2>2
  <2>5. h.positions[j] = to
    BY <1>2 DEF j
  <2>6. history'.positions[history'.offset + d + 1] = to
    BY <1>7, <2>3, <2>4, <2>5
  <2>7. history'.offset + d \in 0 .. Len(history'.positions) - 1
    BY <1>2, <1>7, <1>11, <1>12, <1>13
  <2>8. history'.offset # -1
    BY <1>8, <1>9, <1>12
  <2> QED
    BY <1>15, <2>6, <2>7, <2>8 DEF l, d, to
<1> QED
  BY <1>14, <1>15

\* Where the steps lead to none, one of them leads to none again, or takes the
\* position nearer to the end of the playlist, or over it.
LEMMA NoneStepLeads ==
  ASSUME PInv, LeadsToNone, ~undefined,
         NEW way \in {"next", "previous"}, promise.way = way, promise.left > 0,
         NEW by \in {-1, 1}, by = 1 <=> way = "next",
         NEW n \in ItemPos(way, 1),
         Jump(resources, n.pos, currentPos, Advanced(n.history, by)),
         currentPos' \in -1 .. Len(resources) - 1
  PROVE  LET l == promise.left - 1
             d == IF way = "next" THEN l ELSE 0 - l
             base == IF way = "previous" /\ currentPos' = -1 THEN Len(resources)
                     ELSE currentPos'
         IN \/ /\ \/ resources = <<>> \/ playbackMode = "CurrentItemOnce"
                  \/ playbackMode = "CurrentItemInLoop"
               /\ currentPos' = -1
            \/ /\ playbackMode = "Sequential"
               /\ \/ promise.ended \/ currentPos' = -1
                  \/ l # 0 /\ d + base \notin 0 .. Len(resources) - 1
<1> DEFINE N == Len(resources)
           l == promise.left - 1
<1>1. /\ N \in Nat /\ currentPos \in -1 .. N - 1 /\ (resources = <<>> <=> N = 0)
      /\ promise.left \in Int
  BY DEF PInv, IInv, Types, PositionsOf, PromiseTypes
<1>2. CASE resources = <<>>
  BY <1>1, <1>2
<1>3. CASE resources # <<>> /\ playbackMode \in {"CurrentItemOnce", "CurrentItemInLoop"}
  <2>1. n.pos = -1
    BY <1>1, <1>3 DEF LeadsToNone, ItemPos, Stays, Count
  <2>2. currentPos' = Within(resources, n.pos)
    BY <1>3 DEF Jump
  <2> QED
    BY <1>3, <2>1, <2>2 DEF Within
<1>4. CASE /\ resources # <<>> /\ playbackMode = "Sequential"
           /\ ~promise.ended /\ currentPos' # -1
  <2>1. currentPos' = Within(resources, n.pos)
    BY <1>4 DEF Jump
  <2>2. n.pos = currentPos' /\ n.pos # -1
    BY <1>4, <2>1 DEF Within
  <2>3. n.pos = IF way = "next" THEN SequenceOn(N, 1) ELSE SequenceBack(N, 1)
    BY <1>1, <1>4 DEF ItemPos, Stays, Count
  <2>4. Distance + Base(resources) \notin 0 .. N - 1
    BY <1>4 DEF LeadsToNone
  <2> HIDE DEF N
  <2>5. CASE way = "next"
    <3>1. currentPos' = currentPos + 1 /\ currentPos + 1 < N
      BY <1>4, <2>2, <2>3, <2>5 DEF SequenceOn
    <3>2. promise.left + currentPos \notin 0 .. N - 1
      BY <2>4, <2>5 DEF Distance, Base
    <3>3. l # 0 /\ l + currentPos' \notin 0 .. N - 1
      BY <1>1, <3>1, <3>2
    <3> QED
      BY <1>4, <2>5, <3>3 DEF N
  <2>6. CASE way = "previous"
    <3> DEFINE c == IF currentPos = -1 THEN N ELSE currentPos
    <3>1. currentPos' = c - 1 /\ c - 1 >= 0 /\ c \in 0 .. N
      BY <1>1, <2>2, <2>3, <2>6 DEF SequenceBack
    <3>2. (0 - promise.left) + c \notin 0 .. N - 1
      BY <2>4, <2>6 DEF Distance, Base, N
    <3> HIDE DEF c
    <3>3. l # 0 /\ (0 - l) + currentPos' \notin 0 .. N - 1
      BY <1>1, <3>1, <3>2
    <3> QED
      BY <1>4, <2>6, <3>3 DEF N
  <2> QED
    BY <2>5, <2>6
<1>5. CASE /\ resources # <<>> /\ playbackMode = "Sequential"
           /\ promise.ended \/ currentPos' = -1
  BY <1>5
<1> QED
  BY <1>1, <1>2, <1>3, <1>4, <1>5 DEF LeadsToNone

\* A step in the direction of the promise brings its position nearer; one in
\* the other direction ends it.
LEMMA StepPromise ==
  ASSUME PInv, IInv', ~undefined, NEW way \in {"next", "previous"}, Fulfilled(way),
         NEW by \in {-1, 1}, by = 1 <=> way = "next",
         NEW n \in ItemPos(way, 1),
         Jump(resources, n.pos, currentPos, Advanced(n.history, by)),
         UNCHANGED <<resources, playbackMode>>
  PROVE  PromiseTypes' /\ PromiseHeld' /\ PromiseIsKept'
<1>1. CASE ~(promise.way = way /\ promise.left > 0)
  <2>1. promise' = NoPromise
    BY <1>1 DEF Fulfilled
  <2> QED
    BY <2>1, DisturbedPromise
<1>2. CASE promise.way = way /\ promise.left > 0
  <2> DEFINE l == promise.left - 1
             d == IF way = "next" THEN l ELSE 0 - l
             P == [way : {"none", "next", "previous"}, left : -1 .. MaxSteps, pos : Int,
                   ended : BOOLEAN]
  <2>1. promise \in P /\ promise.left \in -1 .. MaxSteps /\ promise.left > 0 /\ MaxSteps \in Nat
    BY <1>2, BoundsAssumption DEF PInv, PromiseTypes
  <2>2. promise' = [promise EXCEPT !.left = l, !.ended = @ \/ currentPos' = -1]
    BY <1>2 DEF Fulfilled
  <2>3. l \in -1 .. MaxSteps /\ l >= 0 /\ l \in Int
    BY <2>1
  <2> HIDE DEF l
  <2>4. /\ promise' \in P /\ promise'.left = l
        /\ promise'.way = way /\ promise'.pos = promise.pos
        /\ promise'.ended = (promise.ended \/ currentPos' = -1)
    BY <1>2, <2>1, <2>2, <2>3
  <2>5. PromiseTypes'
    BY <2>4 DEF PromiseTypes
  <2>6. Distance' = d
    BY <2>4 DEF Distance
  <2>7. LeadsToItem \/ LeadsToNone
    BY <1>2 DEF PInv, PromiseHeld, Leads
  <2> DEFINE b == IF way = "previous" /\ currentPos' = -1 THEN Len(resources) ELSE currentPos'
  <2>8. Base(resources)' = b
    BY <2>4 DEF Base
  <2>9. CASE LeadsToItem
    <3>1. /\ l = 0 => currentPos' = promise.pos
          /\ playbackMode = "CurrentItemInLoop" => promise.pos = currentPos'
          /\ playbackMode = "Sequential" => promise.pos = d + currentPos' /\ currentPos' # -1
          /\ playbackMode = "Loop" => promise.pos = (currentPos' + d) % Len(resources)
          /\ playbackMode = "Random" =>
               /\ history'.offset # -1
               /\ history'.offset + d \in 0 .. Len(history'.positions) - 1
               /\ history'.positions[history'.offset + d + 1] = promise.pos
      <4>1. CASE playbackMode # "Random"
        BY <1>2, <2>9, <4>1, PlainStepLeads DEF l
      <4>2. CASE playbackMode = "Random"
        BY <1>2, <2>9, <4>2, RandomStepLeads DEF l
      <4> QED
        BY <4>1, <4>2
    <3>2. PromiseIsKept'
      BY <2>4, <3>1 DEF PromiseIsKept
    <3>3. promise.pos \in 0 .. Len(resources) - 1 /\ playbackMode # "CurrentItemOnce"
      BY <2>9 DEF LeadsToItem
    <3> HIDE DEF d
    <3>4. LeadsToItem'
      BY <2>4, <2>6, <2>8, <3>1, <3>3 DEF LeadsToItem
    <3> QED
      BY <2>4, <2>5, <3>2, <3>4 DEF PromiseHeld, Leads
  <2>10. CASE LeadsToNone
    <3>1. currentPos' \in -1 .. Len(resources) - 1
      BY DEF IInv, Types, PositionsOf
    <3>2. \/ /\ \/ resources = <<>> \/ playbackMode = "CurrentItemOnce"
                \/ playbackMode = "CurrentItemInLoop"
             /\ currentPos' = -1
          \/ /\ playbackMode = "Sequential"
             /\ \/ promise.ended \/ currentPos' = -1
                \/ l # 0 /\ d + b \notin 0 .. Len(resources) - 1
      BY <1>2, <2>10, <3>1, NoneStepLeads DEF l
    <3>3. promise.pos = -1
      BY <2>10 DEF LeadsToNone
    <3> HIDE DEF d, b
    <3>4. PromiseIsKept'
      BY <2>4, <3>2, <3>3 DEF PromiseIsKept
    <3>5. LeadsToNone'
      BY <2>4, <2>6, <2>8, <3>2, <3>3 DEF LeadsToNone
    <3> QED
      BY <2>4, <2>5, <3>4, <3>5 DEF PromiseHeld, Leads
  <2> QED
    BY <2>7, <2>9, <2>10
<1> QED
  BY <1>1, <1>2
-----------------------------------------------------------------------------
\* An empty playlist has no position and no history.
LEMMA InitIInv == Init => IInv
<1> SUFFICES ASSUME Init PROVE IInv
  OBVIOUS
<1> USE DEF Init
<1>1. /\ history \in Histories /\ history.offset = -1
      /\ history.offset \in -1 .. Len(history.positions) - 1
  BY DEF NoHistory, Histories
<1>2. MediaAt(resources, currentPos) = Null
  BY DEF MediaAt, Count
<1>3. Types
  <2>1. resources \in Seq(Media) /\ trail \in Seq(PositionsOf(resources))
    OBVIOUS
  <2>2. currentPos \in PositionsOf(resources)
    BY DEF PositionsOf
  <2>3. playbackMode \in AllModes
    BY DEF AllModes
  <2> QED
    BY <1>1, <2>1, <2>2, <2>3 DEF Types
<1>4. PlayerHasCurrentItem /\ HistoryPresent /\ TrailKept
  BY <1>1, <1>2 DEF PlayerHasCurrentItem, HistoryPresent, TrailKept
<1> QED
  BY <1>3, <1>4 DEF IInv

\* Every step keeps the inductive invariant.
LEMMA NextIInv == IInv /\ [Next]_vars => IInv'
<1> SUFFICES ASSUME IInv, [Next]_vars PROVE IInv'
  OBVIOUS
<1>1. CASE Advance
  BY <1>1, AdvanceKeepsIInv
<1>2. CASE Retreat
  BY <1>2, RetreatKeepsIInv
<1>3. ASSUME NEW way \in {"next", "previous"}, NEW steps, Ask(way, steps) PROVE IInv'
  BY <1>3, AskKeepsIInv
<1>4. ASSUME NEW position, SetCurrentIndex(position) PROVE IInv'
  BY <1>4, SetCurrentIndexKeepsIInv
<1>5. ASSUME NEW mode \in Modes, SetPlaybackMode(mode) PROVE IInv'
  BY <1>5, SetPlaybackModeKeepsIInv
<1>6. ASSUME NEW items \in Others, SetPlaylist(items) PROVE IInv'
  BY <1>6, SetPlaylistKeepsIInv
<1>7. ASSUME NEW pos, NEW items \in BoundedSeq(Media, 2), InsertMedia(pos, items) PROVE IInv'
  BY <1>7, InsertMediaKeepsIInv
<1>8. ASSUME NEW start \in 0 .. MaxCount - 1, NEW end \in 0 .. MaxCount - 1, RemoveMedia(start, end)
      PROVE  IInv'
  BY <1>8, BoundsAssumption, RemoveMediaKeepsIInv
<1>9. CASE Shuffle
  BY <1>9, ShuffleKeepsIInv
<1>10. CASE UNCHANGED vars
  BY <1>10 DEF vars, IInv, Types, PlayerHasCurrentItem, HistoryPresent, TrailKept
<1> QED
  BY <1>1, <1>2, <1>3, <1>4, <1>5, <1>6, <1>7, <1>8, <1>9, <1>10 DEF Next

\* The inductive invariant always holds.
LEMMA Invariance == Spec => []IInv
BY InitIInv, NextIInv, PTL DEF Spec

\* The position is always one of the playlist's or none, and the history has
\* a present entry or none.
THEOREM TypeCorrectness == Spec => []TypeOK
<1>1. IInv => TypeOK
  BY DEF IInv, Types, TypeOK, Count, PositionsOf
<1> QED
  BY <1>1, Invariance, PTL

\* The player was last told to play the item at the position.
THEOREM PlayerFollows == Spec => []PlayerHasCurrentItem
<1>1. IInv => PlayerHasCurrentItem
  BY DEF IInv
<1> QED
  BY <1>1, Invariance, PTL

\* Going back in random playback leads through the positions it came by.
THEOREM HistoryIsRetraced == Spec => RandomRetraces
<1>1. IInv /\ [Next]_vars =>
        [Retreat /\ ~undefined' /\ trail # <<>> =>
           Last(trail) = -1 \/ currentPos' = Last(trail)]_vars
  BY RetreatKeepsIInv
<1> QED
  BY <1>1, Invariance, PTL DEF Spec, RandomRetraces

\* No promise is given before the first question.
LEMMA InitPromise == Init => PInv
<1> SUFFICES ASSUME Init PROVE PInv
  OBVIOUS
<1>1. /\ promise \in [way : {"none", "next", "previous"}, left : -1 .. MaxSteps, pos : Int,
                  ended : BOOLEAN]
      /\ promise.left = -1
  BY BoundsAssumption DEF Init, NoPromise
<1> QED
  BY <1>1, InitIInv DEF PInv, PromiseTypes, PromiseHeld, PromiseIsKept

\* Every step keeps what the promise rests on.
LEMMA NextPromise == PInv /\ [Next]_vars => PInv'
<1> SUFFICES ASSUME PInv, [Next]_vars PROVE PInv'
  OBVIOUS
<1>1. IInv /\ IInv'
  BY NextIInv DEF PInv
<1> SUFFICES PromiseTypes' /\ PromiseHeld' /\ PromiseIsKept'
  BY <1>1 DEF PInv
<1>2. CASE Advance
  <2>1. PICK n \in ItemPos("next", 1) :
          Jump(resources, n.pos, currentPos, Advanced(n.history, 1))
    BY <1>2 DEF Advance
  <2>2. ~undefined /\ Fulfilled("next") /\ UNCHANGED <<resources, playbackMode>>
    BY <1>2 DEF Advance
  <2> QED
    BY <1>1, <2>1, <2>2, StepPromise
<1>3. CASE Retreat
  <2>1. PICK n \in ItemPos("previous", 1) :
          Jump(resources, n.pos, currentPos, Advanced(n.history, -1))
    BY <1>3 DEF Retreat
  <2>2. ~undefined /\ Fulfilled("previous") /\ UNCHANGED <<resources, playbackMode>>
    BY <1>3 DEF Retreat
  <2> QED
    BY <1>1, <2>1, <2>2, StepPromise
<1>4. ASSUME NEW way \in {"next", "previous"}, NEW steps, Ask(way, steps)
      PROVE  PromiseTypes' /\ PromiseHeld' /\ PromiseIsKept'
  BY <1>4, AskPromise
<1>5. ASSUME promise' = NoPromise
      PROVE  PromiseTypes' /\ PromiseHeld' /\ PromiseIsKept'
  BY <1>5, DisturbedPromise
<1>6. ASSUME NEW position, SetCurrentIndex(position) PROVE promise' = NoPromise
  BY <1>6 DEF SetCurrentIndex, Disturbed
<1>7. ASSUME NEW mode, SetPlaybackMode(mode) PROVE promise' = NoPromise
  BY <1>7 DEF SetPlaybackMode, Disturbed
<1>8. ASSUME NEW items, SetPlaylist(items) PROVE promise' = NoPromise
  BY <1>8 DEF SetPlaylist, Disturbed
<1>9. ASSUME NEW pos, NEW items, InsertMedia(pos, items) PROVE promise' = NoPromise
  BY <1>9 DEF InsertMedia, Disturbed
<1>10. ASSUME NEW start, NEW end, RemoveMedia(start, end) PROVE promise' = NoPromise
  BY <1>10 DEF RemoveMedia, Disturbed
<1>11. ASSUME Shuffle PROVE promise' = NoPromise
  BY <1>11 DEF Shuffle, Disturbed
<1>12. CASE UNCHANGED vars
  BY <1>12 DEF vars, PInv, PromiseTypes, PromiseHeld, PromiseIsKept, Leads, LeadsToItem,
               LeadsToNone, Base, Distance
<1> QED
  BY <1>2, <1>3, <1>4, <1>5, <1>6, <1>7, <1>8, <1>9, <1>10, <1>11, <1>12 DEF Next

\* nextIndex() and previousIndex() tell where that many calls of next() or
\* previous() lead, answers of none included, in every playback mode, whatever
\* random playback draws, for any playlist and any number of steps - except
\* that an answer of none in sequential playback tells only that the steps come
\* off the playlist on the way.
THEOREM PromiseKept == Spec => []PromiseIsKept
<1>1. PInv => PromiseIsKept
  BY DEF PInv
<1> QED
  BY InitPromise, NextPromise, <1>1, PTL DEF Spec
=============================================================================
