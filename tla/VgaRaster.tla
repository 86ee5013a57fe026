------------------------------ MODULE VgaRaster ------------------------------
(***************************************************************************)
(* What dos_sender_legacy/src/vga.c does with the screen, as functions of  *)
(* its state: the shadow rasters in RAM, the two video pages, the          *)
(* placement map and the template of the fast renderers, and the status    *)
(* line.  StripePlan says what the kernels paint; here painting a stream   *)
(* of codewords toggles it.                                                *)
(*                                                                         *)
(* A stream of codewords is a set of parts added over GF(2), so that XOR   *)
(* is symmetric difference.  A raster is the QR area of one screen: the    *)
(* modules of a mask, dark or light, with a stream toggled into them.      *)
(***************************************************************************)
EXTENDS Integers, FiniteSetsExt

NoRaster == [mask |-> -1, invert |-> -1, cw |-> {}]
Junk == [qr |-> <<>>, border |-> -1, text |-> "junk"]

\* status_generation is a u32; a page lags at most two redraws behind.
Generations == 4

\* vga_enter(): nothing is known of the pages, and page 1 is drawn first.
\* What the shadows still hold of an earlier session is drawn over before it
\* is shown.
Entered ==
  [placement |-> FALSE, template |-> NoRaster,
   qr |-> <<>>, border |-> -1, text |-> "junk", invert |-> -1,
   write |-> 1, page |-> [p \in 0..1 |-> Junk],
   initialized |-> [p \in 0..1 |-> FALSE], pageInvert |-> [p \in 0..1 |-> 0],
   generation |-> 1, pageGeneration |-> [p \in 0..1 |-> 0], active |-> FALSE]

\* The page select_display_page() chose last.
Displayed(v) == v.page[1 - v.write]

\* vga_delta_ready(), vga_direct_ready().
DeltaReady(v) == v.placement
DirectReady(v) == v.placement /\ v.template # NoRaster

\* build_qr_image_*(): the canonical raster of each channel, all of the
\* rest blank.
Build(v, rasters, invert) ==
  [v EXCEPT !.qr = [c \in DOMAIN rasters |-> [rasters[c] EXCEPT !.invert = invert]],
            !.border = invert, !.text = "blank", !.invert = invert]

\* prepare_placement_map() drops what belongs to the mask before; then, with
\* room, capture_*_template(): the raster with its stream toggled out.
Prepare(v, streams, room) ==
  [v EXCEPT !.placement = TRUE,
            !.template = IF room THEN [v.qr[1] EXCEPT !.cw = SymDiff(@, streams[1])]
                         ELSE NoRaster]

\* status_text_*(): nothing to do for no text where there was none.
Write(v, text) ==
  IF text = "blank" /\ ~v.active THEN v
  ELSE [v EXCEPT !.text = text, !.active = text # "blank",
                 !.generation = (@ + 1) % Generations]

\* Mutant of Copy: a page that was drawn once has the status line.
CopyQrOnly(v) ==
  LET page == v.page[v.write]
      new == [qr |-> v.qr, border |-> v.border, text |-> v.text]
  IN IF v.initialized[v.write] /\ v.pageInvert[v.write] = v.invert
     THEN [page EXCEPT !.qr = v.qr] ELSE new

\* copy_*_flip(): the whole page when it is new or of the other polarity,
\* else the QR rows, and the status line when that has changed.
Copy(v) ==
  LET page == v.page[v.write]
      fresh == ~v.initialized[v.write] \/ v.pageInvert[v.write] # v.invert
      status == IF v.pageGeneration[v.write] # v.generation THEN v.text ELSE page.text
  IN IF fresh THEN [qr |-> v.qr, border |-> v.border, text |-> v.text]
     ELSE [page EXCEPT !.qr = v.qr, !.text = status]

\* ... and finish_page_flip().
Flip(v) ==
  [v EXCEPT !.page[v.write] = Copy(v), !.initialized[v.write] = TRUE,
            !.pageInvert[v.write] = v.invert,
            !.pageGeneration[v.write] = v.generation, !.write = 1 - @]

\* vga_apply_codeword_delta(), vga_apply_v40l_delta() and their RGB3 forms:
\* the difference of the streams is toggled in the shadows.
ApplyDelta(v, next, current) ==
  [v EXCEPT !.qr = [c \in DOMAIN v.qr |->
     [v.qr[c] EXCEPT !.cw = SymDiff(@, SymDiff(next[c], current[c]))]]]

\* vga_apply_codewords_direct(), vga_apply_codewords3_direct().
ApplyDirect(v, next) ==
  [v EXCEPT !.qr = [c \in DOMAIN v.qr |->
     [v.template EXCEPT !.cw = SymDiff(@, next[c])]]]

\* vga_show_full_qr_at(), vga_show_full_qr3_at().
ShowFull(v, rasters, streams, invert, text, room) ==
  Flip(Write(Prepare(Build(v, rasters, invert), streams, room), text))

\* vga_show_prepared_at(), vga_show_prepared3_at() and when they refuse.
MayShowPrepared(v, invert) == v.placement /\ v.invert = invert
ShowPrepared(v, text) == Flip(Write(v, text))
=============================================================================
