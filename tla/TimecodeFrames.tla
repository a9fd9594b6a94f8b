--------------------------- MODULE TimecodeFrames ---------------------------
(***************************************************************************)
(* The arithmetic of timecode (internal/timecode/timecode.go, mtc.go):     *)
(* frame numbers, labels with dropped numbers, and MIDI quarter frames.    *)
(* The machine runs frame by frame from a few instants of the day, counts  *)
(* labels the way a clock does, and sends each of them to one decoder,     *)
(* piece by piece and without a loss.                                      *)
(***************************************************************************)
EXTENDS Integers, Sequences

CONSTANTS
  Rates,    \* [fps, drop] : frames of a counted second; labels are dropped
  Instants, \* labels [hours, minutes, seconds, frames] from which it runs
  Span      \* bound: frames from there

VARIABLES
  rate, start, frame,
  shown,    \* the label, counted
  sent,     \* pieces of it that were sent
  reverse,  \* from the last to the first
  decoder   \* runtimeState.mtc, and what its last piece completed

framesVars == <<rate, start, frame, shown, sent, reverse, decoder>>

Labels == [hours : Nat, minutes : Nat, seconds : Nat, frames : Nat]

\* A Rate has frames; of those that ParseRate gives, one that drops labels has
\* 30 or 60.
ASSUME FramesAssumption ==
  /\ \A r \in Rates : /\ r \in [fps : Nat \ {0}, drop : BOOLEAN]
                      /\ r.drop => r.fps \in {30, 60}
  /\ Instants \subseteq Labels /\ Span \in Nat

DropFramesPerMinute(r) == IF r.drop THEN r.fps \div 15 ELSE 0

IsDropped(r, tc) ==
  /\ tc.seconds = 0 /\ tc.minutes % 10 # 0
  /\ tc.frames < DropFramesPerMinute(r)

Valid(r, tc) ==
  /\ tc.hours \in 0..23 /\ tc.minutes \in 0..59 /\ tc.seconds \in 0..59
  /\ tc.frames \in 0..(r.fps - 1)
  /\ ~IsDropped(r, tc)

FrameNumber(r, tc) ==
  LET minutes == tc.hours * 60 + tc.minutes
  IN  (minutes * 60 + tc.seconds) * r.fps + tc.frames
        - DropFramesPerMinute(r) * (minutes - minutes \div 10)

FramesPerDay(r) == (r.fps * 600 - DropFramesPerMinute(r) * 9) * 144

\* The label with this number if no label were dropped.
Label(r, n) ==
  [hours |-> n \div (r.fps * 3600), minutes |-> (n \div (r.fps * 60)) % 60,
   seconds |-> (n \div r.fps) % 60, frames |-> n % r.fps]

\* Faulty variant: every minute of ten drops its labels, the first one too.
FromFrameNumberTenth(r, n) ==
  LET drop == DropFramesPerMinute(r)
      day == n % FramesPerDay(r)
  IN  Label(r, day + drop * (day \div (r.fps * 60 - drop)))

FromFrameNumber(r, n) ==
  LET drop == DropFramesPerMinute(r)
      perTenMinutes == r.fps * 600 - drop * 9
      day == n % FramesPerDay(r)
      rest == day % perTenMinutes
  IN  Label(r, day + drop * 9 * (day \div perTenMinutes)
                 + (IF rest >= drop
                    THEN drop * ((rest - drop) \div (r.fps * 60 - drop)) ELSE 0))

-----------------------------------------------------------------------------
(* MIDI time code: eight pieces of a label, in order, or backwards.        *)

MTCRates == <<[fps |-> 24, drop |-> FALSE], [fps |-> 25, drop |-> FALSE],
              [fps |-> 30, drop |-> TRUE], [fps |-> 30, drop |-> FALSE]>>

Representable(r) == \E code \in DOMAIN MTCRates : MTCRates[code] = r
MTCCode(r) == (CHOOSE code \in DOMAIN MTCRates : MTCRates[code] = r) - 1

EncodeQuarterFrames(r, tc) ==
  <<tc.frames % 16, (tc.frames \div 16) % 2,
    tc.seconds % 16, (tc.seconds \div 16) % 4,
    tc.minutes % 16, (tc.minutes \div 16) % 4,
    tc.hours % 16, ((tc.hours \div 16) % 2) + 2 * MTCCode(r)>>

Pieces == 0..7
NoTimecode == [complete |-> FALSE, rate |-> MTCRates[1], label |-> Label(MTCRates[1], 0)]
FreshDecoder == [nibbles |-> [p \in Pieces |-> 0], seen |-> {}, last |-> -1, direction |-> 0,
                 out |-> NoTimecode]

Decoded(nibbles) ==
  [complete |-> TRUE, rate |-> MTCRates[((nibbles[7] \div 2) % 4) + 1],
   label |-> [hours |-> nibbles[6] + 16 * (nibbles[7] % 2),
              minutes |-> nibbles[4] + 16 * (nibbles[5] % 4),
              seconds |-> nibbles[2] + 16 * (nibbles[3] % 4),
              frames |-> nibbles[0] + 16 * (nibbles[1] % 2)]]

\* MTCDecoder.Push: a piece that is neither the next nor the one before, in the
\* direction of the others, starts anew.
Push(d, piece, nibble) ==
  LET Follows(way) == piece = (d.last + way + 8) % 8 /\ d.direction \in {0, way}
      turn == IF d.seen = {} THEN 0 ELSE IF Follows(1) THEN 1
              ELSE IF Follows(-1) THEN -1 ELSE 2
      seen == (IF turn = 2 THEN {} ELSE d.seen) \cup {piece}
      nibbles == [d.nibbles EXCEPT ![piece] = nibble]
      whole == seen = Pieces
      valid == Valid(Decoded(nibbles).rate, Decoded(nibbles).label)
  IN  [nibbles |-> nibbles,
       seen |-> IF whole THEN {} ELSE seen,
       last |-> IF whole /\ ~valid THEN -1 ELSE piece,
       direction |-> IF turn = 2 \/ (whole /\ ~valid) THEN 0 ELSE turn,
       out |-> IF whole /\ valid THEN Decoded(nibbles) ELSE NoTimecode]

-----------------------------------------------------------------------------

FramesInit ==
  /\ rate \in Rates
  /\ start \in {tc \in Instants : Valid(rate, tc)}
  /\ shown = start
  /\ frame = FrameNumber(rate, start)
  /\ sent = 8 /\ reverse = FALSE
  /\ decoder = FreshDecoder

\* A label after this one on a clock of 24 hours: external, a reference.
Tick(r, tc) ==
  LET one == Label(r, (((tc.hours * 60 + tc.minutes) * 60 + tc.seconds) * r.fps
                        + tc.frames + 1) % (r.fps * 86400))
  IN  IF IsDropped(r, one) THEN [one EXCEPT !.frames = DropFramesPerMinute(r)] ELSE one

\* The source runs on by a frame, and begins to tell which one it is.
RunFrame ==
  /\ sent = 8 /\ frame < FrameNumber(rate, start) + Span
  /\ frame' = frame + 1
  /\ shown' = Tick(rate, shown)
  /\ IF Representable(rate) THEN sent' = 0 /\ reverse' \in BOOLEAN ELSE UNCHANGED <<sent, reverse>>
  /\ UNCHANGED <<rate, start, decoder>>

Piece == IF reverse THEN 7 - sent ELSE sent

HearPiece ==
  /\ sent < 8
  /\ decoder' = Push(decoder, Piece, EncodeQuarterFrames(rate, shown)[Piece + 1])
  /\ sent' = sent + 1
  /\ UNCHANGED <<rate, start, frame, shown, reverse>>

FramesNext == RunFrame \/ HearPiece

FramesSpec == FramesInit /\ [][FramesNext]_framesVars

-----------------------------------------------------------------------------

FramesTypeOK ==
  /\ rate \in Rates /\ start \in Instants /\ frame \in Nat
  /\ Valid(rate, shown) /\ sent \in 0..8 /\ reverse \in BOOLEAN
  /\ decoder.seen \subseteq Pieces /\ decoder.direction \in {-1, 0, 1}

(* A frame number is the label that a clock would show after as many        *)
(* frames, and back, through minutes, tens of minutes and midnight, for     *)
(* every rate; and a label sent as quarter frames, in whichever direction,  *)
(* is heard as it was sent, at its last piece and not before                *)
(* (FromFrameNumber, FrameNumber, MTCDecoder.Push).                         *)
FrameNumbersAreExact ==
  /\ FromFrameNumber(rate, frame) = shown
  /\ FrameNumber(rate, shown) = frame % FramesPerDay(rate)
  /\ Representable(rate) /\ frame > FrameNumber(rate, start) /\ sent # 0 =>
       decoder.out = IF sent = 8 THEN [complete |-> TRUE, rate |-> rate, label |-> shown]
                     ELSE NoTimecode
=============================================================================
