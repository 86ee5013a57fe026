---------------------------- MODULE LegacyRaster ----------------------------
(***************************************************************************)
(* How the images of LegacySender come to be on the CRT                    *)
(* (dos_sender_legacy/src/sender.c above run_transfer(), and VgaRaster).   *)
(* An image is encoded from scratch or derived from what was encoded       *)
(* before: the XOR of two frames from the codewords of both, the next      *)
(* frame from the cache of the equation before it, the parity of an RGB3   *)
(* stripe from the sum of the images shown.  It is drawn from scratch or   *)
(* over what the shadow rasters hold, and copied to the hidden page in     *)
(* part.  Whatever the way, the page has to show what LegacySender means.  *)
(*                                                                         *)
(* Frames are one record each, so their lengths vary within a window.      *)
(* This is the release build: DATA has no status line.                     *)
(***************************************************************************)
EXTENDS LegacySender, VgaRaster

CONSTANTS
  QrMask,    \* /MASK
  Invert,    \* 1 with /INVERT
  Payloads   \* lengths of the frames, in turn: sequences over 1..Full

VARIABLES
  sizes,     \* member of Payloads
  vga,       \* the state of vga.c
  enc,       \* the static state of sender.c
  rescue,    \* rescue_round, modulo the seven rescue masks
  refused    \* a show_*() call has returned 0

raster == <<sizes, vga, enc, rescue, refused>>

\* 2904 bytes of payload fill a V40-L symbol.
Full == 3

ASSUME RasterAssumption ==
  /\ QrMask \in 0..7 /\ Invert \in 0..1
  /\ \A p \in Payloads : p \in Seq(1..Full) /\ p # <<>>

-----------------------------------------------------------------------------
(* Frames and their codewords.                                             *)

\* The header of an item: what make_frame() is given.
Frame(item) == [item |-> item, base |-> base]
Sources(f) == {f.base + i : i \in Members(f.item)}

PayloadLen(g) == sizes[(g % Len(sizes)) + 1]
Lengths3(S) == {PayloadLen(g) : g \in S}
LenOf(f) == IF Sources(f) = {} THEN 0 ELSE Max(Lengths3(Sources(f)))
SameLength(f) == Cardinality(Lengths3(Sources(f))) = 1

\* FF_PAIR_WHITENED and FF_GROUP_XOR_WHITENED: the payload of such an
\* equation is the sum of the whitened payloads of its members, if they are
\* of one length.
Summed(f) ==
  \/ f.item.kind = "DATA"
  \/ (f.item.kind = "CHAIN_XOR" \/ f.item.stride = 3) /\ SameLength(f)
Body(f) == IF Summed(f) THEN {<<"payload", g>> : g \in Sources(f)} ELSE {<<"sum", f>>}

\* The codewords of a frame: mode, length and padding; header; payload.  The
\* error correction follows from them, linearly.
Encode(f) == {<<"length", LenOf(f)>>, <<"header", f>>} \cup Body(f)

\* qrcodegen_dosferCorrectXorV40L(): the sum of n streams becomes the stream
\* of an equation of full length, or of the length all of an odd n had.
CorrectXor(sum, n, headers) ==
  SymDiff(sum, headers \cup (IF n % 2 = 0 THEN {<<"length", Full>>} ELSE {}))

-----------------------------------------------------------------------------
(* BW: show_frame(), show_chain(), show_block_parity(), show_eow().        *)

\* transmit(), transmit_rgb3(): a rescue uses another mask each time.
DisplayMask ==
  IF selecting /\ selected # {} THEN (QrMask + 1 + (IF rescue = 0 THEN 0 ELSE (rescue - 1) % 7)) % 8
  ELSE QrMask

CanPrepare(mask) == enc.ready /\ mask = enc.mask

Drawn(mask, stream) == [mask |-> mask, invert |-> Invert, cw |-> stream]

\* qr_prepare_mask(), make_prepacked_data() and display_encoded(), when e is
\* what else has changed.
Display(e, stream, mask, text, room) ==
  LET prepared == CanPrepare(mask)
      drawn == IF DirectReady(vga) THEN ApplyDirect(vga, <<stream>>)
               ELSE ApplyDelta(vga, <<stream>>, enc.cw)
      shownOn == IF prepared THEN ShowPrepared(drawn, text)
               ELSE ShowFull(vga, <<Drawn(mask, stream)>>, <<stream>>, Invert, text, room)
  IN [vga |-> shownOn,
      enc |-> [e EXCEPT !.cw = <<stream>>, !.mask = mask, !.ready = DeltaReady(shownOn)],
      ok |-> prepared => MayShowPrepared(vga, Invert)]

CacheKey(i, mask) == <<window, base + i, i, mask>>

\* Mutant of CacheHit: the index of the cached frame is not compared.
CacheHitAnyIndex(item, mask) ==
  /\ CanPrepare(mask) /\ ~item.repeated
  /\ enc.cache.valid /\ enc.cache.key[1] = window /\ enc.cache.key[4] = mask

CacheHit(item, mask) ==
  /\ CanPrepare(mask) /\ ~item.repeated
  /\ enc.cache.valid /\ enc.cache.key = CacheKey(item.first, mask)

\* show_frame(): raw_frame keeps the header of the frame where C2 needs it.
ShowFrame(item, mask, room) ==
  LET f == Frame(item)
      prepacked == CanPrepare(mask) /\ LenOf(f) = Full
      header == IF prepacked /\ cfg.chain # 2 THEN enc.raw ELSE f
  IN IF CacheHit(item, mask)
     THEN Display([enc EXCEPT !.raw = enc.cache.raw, !.cache.valid = FALSE],
                  enc.cache.cw, mask, "blank", room)
     ELSE Display([enc EXCEPT !.raw = header], Encode(f), mask, "blank", room)

\* ensure_chain_cache() and what show_chain() puts there: the header of the
\* right frame always, its codewords if it is of full length.
ChainCache(item, spare) ==
  LET right == Frame(Data(item.first + 1, FALSE))
      cache == enc.cache
  IN IF ~CanPrepare(QrMask) THEN cache
     ELSE IF ~(cache.buffers \/ spare)
     THEN [cache EXCEPT !.buffers = FALSE, !.valid = FALSE]
     ELSE IF LenOf(right) = Full
     THEN [buffers |-> TRUE, valid |-> TRUE, key |-> CacheKey(item.first + 1, QrMask),
           raw |-> right, cw |-> Encode(right)]
     ELSE [cache EXCEPT !.buffers = TRUE, !.raw = right]

\* show_chain(): derived from the left frame, just shown, and the right one.
ShowChain(item, spare, room) ==
  LET f == Frame(item)
      left == Frame(Data(item.first, FALSE))
      right == Frame(Data(item.first + 1, FALSE))
      derived == /\ CanPrepare(QrMask) /\ (enc.cache.buffers \/ spare)
                 /\ LenOf(left) = Full /\ LenOf(right) = Full
      headers == SymDiff(SymDiff({<<"header", enc.raw>>}, {<<"header", right>>}),
                         {<<"header", f>>})
      stream == IF derived THEN CorrectXor(SymDiff(enc.cw[1], Encode(right)), 2, headers)
                ELSE Encode(f)
  IN Display([enc EXCEPT !.raw = f, !.cache = ChainCache(item, spare)],
             stream, QrMask, "blank", room)

\* show_block_parity(), and show_eow() with its status line.
ShowWhole(item, text, room) ==
  Display([enc EXCEPT !.raw = Frame(item)], Encode(Frame(item)), QrMask, text, room)

ShowMono(item, spare, room) ==
  CASE item.kind = "DATA" -> ShowFrame(item, DisplayMask, room)
    [] item.kind = "CHAIN_XOR" -> ShowChain(item, spare, room)
    [] item.kind = "BLOCK_XOR" -> ShowWhole(item, "blank", room)
    [] item.kind = "END_WINDOW" -> ShowWhole(item, "done", room)

-----------------------------------------------------------------------------
(* RGB3: display_rgb_items(), the parity accumulator and its flush.        *)

\* show_rgb_batch(): RED, GREEN, BLUE in the order of the frames, the last
\* item repeated.
InOrder(items) ==
  [k \in 1..Cardinality(items) |->
     CHOOSE a \in items : Cardinality({b \in items : b.first < a.first}) = k - 1]
Channels(items) ==
  [c \in 1..3 |-> InOrder(items)[Smaller(c, Cardinality(items))]]

\* rgb_prepare_items() and display_rgb_items().
DisplayItems(items, mask, text, room) ==
  LET frames == [c \in 1..3 |-> Frame(Channels(items)[c])]
      streams == [c \in 1..3 |-> Encode(frames[c])]
      direct == CanPrepare(mask)
      shownOn == IF direct THEN ShowPrepared(ApplyDirect(vga, streams), text)
               ELSE ShowFull(vga, [c \in 1..3 |-> Drawn(mask, streams[c])], streams,
                             Invert, text, room)
  IN [vga |-> shownOn,
      enc |-> [enc EXCEPT !.cw = streams, !.headers = frames, !.mask = mask,
                          !.ready = DirectReady(shownOn)],
      ok |-> direct => DirectReady(vga) /\ MayShowPrepared(vga, Invert)]

\* reset_rgb_parity_accumulator()
NoParity == [c \in 1..3 |-> [first |-> 0, count |-> 0, headers |-> {}, cw |-> {}]]

\* accumulate_rgb_data(), given the encoder after the image was shown: it
\* refuses batches that do not follow one another.
Follows(acc, item) == acc.count = 0 \/ item.first = acc.first + acc.count * 3
Accumulate(e, items) ==
  LET header(c) == {<<"header", e.headers[c]>>}
      add(c, acc) ==
        IF acc.count = 0
        THEN [first |-> Channels(items)[c].first, count |-> 1,
              headers |-> header(c), cw |-> e.cw[c]]
        ELSE [acc EXCEPT !.count = @ + 1, !.headers = SymDiff(@, header(c)),
                         !.cw = SymDiff(@, e.cw[c])]
  IN [c \in 1..3 |-> IF c <= Cardinality(items) THEN add(c, e.acc[c]) ELSE e.acc[c]]
Contiguous(items) ==
  \A c \in 1..Cardinality(items) : Follows(enc.acc[c], Channels(items)[c])

\* A stripe is summed up in a pass of /RE:3 without a selection.
Striped == cfg.rgb3 /\ cfg.group = 3 /\ cfg.chain = 0 /\ ~selecting

ShowData(items, room) ==
  LET d == DisplayItems(items, DisplayMask, "blank", room)
  IN IF Striped
     THEN [d EXCEPT !.enc.acc = Accumulate(d.enc, items), !.ok = @ /\ Contiguous(items)]
     ELSE d

\* Mutant of Affine: equations of two shorter frames are derived as well.
AffineOfAnyLength(f) == SameLength(f)

\* finalize_rgb_parity_channel(): where the sum of the images is all but the
\* equation.
Affine(f) == SameLength(f) /\ (f.item.count # 2 \/ LenOf(f) = Full)

ParityOf(acc) == Frame(Item("BLOCK_XOR", acc.first, acc.count, 3))
Finalized(acc) ==
  LET f == ParityOf(acc)
  IN IF Affine(f)
     THEN CorrectXor(acc.cw, acc.count, SymDiff(acc.headers, {<<"header", f>>}))
     ELSE Encode(f)

\* Mutant of Flushed: the accumulator is not reset.
FlushedOnly(e) == e

Flushed(e) == [e EXCEPT !.acc = NoParity]

\* flush_rgb_channel_parity(): from the sums, or encoded anew.
FlushParity(room) ==
  LET used == {c \in 1..3 : enc.acc[c].count > 0}
      last == Max(used)
      streams == [c \in 1..3 |-> Finalized(enc.acc[IF c \in used THEN c ELSE last])]
      anew == DisplayItems({ParityOf(enc.acc[c]).item : c \in used}, DisplayMask, "blank", room)
  IN IF CanPrepare(DisplayMask)
     THEN [vga |-> ShowPrepared(ApplyDirect(vga, streams), "blank"),
           enc |-> Flushed(enc), ok |-> DirectReady(vga) /\ MayShowPrepared(vga, Invert)]
     ELSE [anew EXCEPT !.enc = Flushed(@)]

ShowColour(items, room) ==
  IF items = {EndWindow} THEN DisplayItems(items, QrMask, "done", room)
  ELSE IF DataOf(items) # {} THEN ShowData(items, room)
  ELSE IF Striped THEN FlushParity(room)
  ELSE DisplayItems(items, DisplayMask, "blank", room)

-----------------------------------------------------------------------------
(* run_transfer(), with what is on the CRT.                                *)

NewEncoder(buffers) ==
  [raw |-> Frame(EndWindow), headers |-> <<>>, cw |-> <<>>, mask |-> -1, ready |-> FALSE,
   cache |-> [buffers |-> buffers, valid |-> FALSE, key |-> <<>>,
              raw |-> Frame(EndWindow), cw |-> {}],
   acc |-> NoParity]

\* The first image: enter_transfer_vga() and show_frame() or
\* display_rgb_items() with the prompt, from scratch.
FirstImage(room) ==
  LET items == screen.items
      frames == [c \in 1..(IF cfg.rgb3 THEN 3 ELSE 1) |-> Frame(InOrder(items)[c])]
      streams == [c \in DOMAIN frames |-> Encode(frames[c])]
  IN ShowFull(Entered, [c \in DOMAIN frames |-> Drawn(QrMask, streams[c])], streams,
              Invert, IF cfg.rgb3 THEN "prompt" ELSE "blank", room)

RasterInit ==
  /\ Init
  /\ sizes \in Payloads
  /\ rescue = 0 /\ refused = FALSE
  /\ \E room, buffers \in BOOLEAN :
       LET items == screen.items
           frames == [c \in 1..(IF cfg.rgb3 THEN 3 ELSE 1) |-> Frame(InOrder(items)[c])]
           e == NewEncoder(buffers /\ cfg.chain = 2)
       IN /\ vga = FirstImage(room)
          /\ enc = [e EXCEPT !.raw = frames[1], !.mask = QrMask,
                      !.headers = IF cfg.rgb3 THEN frames ELSE <<>>,
                      !.cw = [c \in DOMAIN frames |-> Encode(frames[c])],
                      !.ready = IF cfg.rgb3 THEN room ELSE TRUE]

\* What a show_*() call makes of the screen, with memory for the template
\* and for the chain cache or without.
Shows(items) ==
  \E room, spare \in BOOLEAN :
    LET r == IF cfg.rgb3 THEN ShowColour(items, room)
             ELSE ShowMono(CHOOSE i \in items : TRUE, spare, room)
    IN /\ vga' = r.vga /\ enc' = r.enc /\ refused' = ~r.ok
       /\ UNCHANGED <<sizes, rescue>>

\* vga_leave() and, when the screen is entered again, enter_transfer_vga():
\* the chain cache survives.
Reentered(e) == [e EXCEPT !.ready = FALSE, !.mask = -1]
Leaves ==
  /\ vga' = Entered /\ enc' = Reentered(enc)
  /\ UNCHANGED <<sizes, refused>>

RasterNext ==
  /\ ~refused
  /\ \/ Show /\ Shows(pass[shown + 1])
     \/ ShowEow /\ Shows({EndWindow})
     \/ Start /\ UNCHANGED raster
     \/ /\ Replay
        /\ rescue' = IF selecting THEN (rescue % 7) + 1 ELSE rescue
        /\ UNCHANGED <<sizes, vga, enc, refused>>
     \/ MissingAll /\ Leaves /\ rescue' = 0
     \/ \E ranges \in Entries :
          /\ MissingRanges(ranges) /\ Leaves
          /\ rescue' = IF selected' = {} THEN rescue ELSE 1
     \/ Enter /\ rescue' = 0 /\ UNCHANGED <<sizes, vga, enc, refused>>
     \/ (Pause \/ Resume \/ Cancel) /\ Leaves /\ UNCHANGED rescue

RasterSpec == RasterInit /\ [][RasterNext]_<<sender, raster>>

-----------------------------------------------------------------------------
(* Properties.                                                             *)

WantedMask == IF EndWindow \in screen.items THEN QrMask ELSE DisplayMask
WantedText ==
  IF EndWindow \in screen.items THEN "done"
  ELSE IF cfg.rgb3 /\ shown = 0 THEN "prompt" ELSE "blank"
WantedFrame(c) ==
  [item |-> IF cfg.rgb3 THEN Channels(screen.items)[c] ELSE CHOOSE i \in screen.items : TRUE,
   base |-> screen.base]

\* The page on the CRT is the image meant: in every channel the codewords of
\* its frame as encoded from scratch, under the mask of the pass and in one
\* polarity, with the status line that belongs to it, through every fast
\* path, page flip, replay, rescue and return from the DOS screen.
PageShows ==
  screen.items # {} /\ ~refused =>
    LET page == Displayed(vga)
    IN /\ page.qr = [c \in 1..(IF cfg.rgb3 THEN 3 ELSE 1) |->
                       Drawn(WantedMask, Encode(WantedFrame(c)))]
       /\ page.border = Invert
       /\ page.text = WantedText

\* No call that shows an image is refused once the first one is up: the fast
\* paths are taken only where they are ready, and the parity of a stripe is
\* only asked of images that follow one another.  A refusal ends the
\* transfer with "QR frame does not fit".
NeverRefused == ~refused
=============================================================================
