-------------------------- MODULE MCCameraScanner --------------------------
(***************************************************************************)
(* Small screens for TLC.                                                  *)
(***************************************************************************)
EXTENDS CameraScanner

CONSTANTS s1, s2, w1, w2

Frame(kind, s, w, i) == [kind |-> kind, session |-> s, window |-> w, index |-> i]
D(s, w, i) == Frame("DATA", s, w, i)
End(s, w) == Frame("END_WINDOW", s, w, 0)
Triple(f) == <<f, f, f>>

\* Two sessions, one image each: an RGB3 image of two frames whose last is
\* repeated, and a monochrome one.
QueueImages == {<<D(s1, 0, 0), D(s1, 0, 1), D(s1, 0, 1)>>, Triple(D(s2, 0, 0))}

\* An RGB3 transfer with /RE:C2 /ANCHOR:4: the tail of a window and its lone
\* anchor, the tail of the next window, each on all channels; and a frame of a
\* monochrome transfer.
TailImages ==
  {Triple(D(s1, 0, 5)), Triple(D(s1, 0, 3)), Triple(D(s1, 1, 7)), Triple(D(s2, 0, 0))}

\* /BW shows every frame on all channels.
MonochromeImages == {Triple(D(s2, 0, i)) : i \in 0..1}

\* /CAL shows its frames on all channels; the store keeps none of them.
CalibrationImages == {Triple(Frame("CALIBRATION", s2, 0, i)) : i \in 0..1}

\* Images of one frame each, of an RGB3 session.
LoneImages == {<<D(s1, 0, 0), NoFrame, NoFrame>>, <<NoFrame, D(s1, 0, 1), NoFrame>>}

Setting(images, keys, presses, pauses) ==
  [images |-> images, keys |-> keys, resets |-> presses, stops |-> pauses]

\* A Reset among images of two frames; a detector fed in any order, over several
\* windows, by /BW and by /CAL; a pause of the camera that does not wait for a
\* slow worker.
MCSettings ==
  {Setting(QueueImages, 2, 1, 0), Setting(TailImages, 1, 0, 0),
   Setting(MonochromeImages, 1, 0, 0), Setting(CalibrationImages, 1, 0, 0),
   Setting(LoneImages, 2, 0, 1)}

MCFrames ==
  UNION {{img[c] : img \in s.images, c \in Channels} : s \in MCSettings} \ {NoFrame}
Both == {s1, s2}
Pool == {w1, w2}
============================================================================
