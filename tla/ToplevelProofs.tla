--------------------------- MODULE ToplevelProofs ---------------------------
(***************************************************************************)
(* Proofs about Toplevel, for any outputs, sizes and window rules: what a  *)
(* window was told last agrees with the space it is in, a window opens as  *)
(* its client and the rules had it, and once it has committed to all it    *)
(* was sent it knows the state the layout wants of it and nothing is left  *)
(* waiting.                                                                *)
(***************************************************************************)
EXTENDS Toplevel, RetainingProofs

Modes == {"Normal", "Maximized", "Fullscreen"}

---------------------------------------------------------------------------
(* Windows. *)

\* A state that is sent to a window.
StateOk(p) ==
  /\ DOMAIN p = {"size", "fullscreen", "maximized", "resizing"}
  /\ p.fullscreen \in BOOLEAN /\ p.maximized \in BOOLEAN

IsSeq(q) == q \in Seq({q[i] : i \in DOMAIN q})

SurfaceOk(s) ==
  /\ DOMAIN s = {"pending", "sent", "committed"}
  /\ StateOk(s.pending) /\ IsSeq(s.sent)

MappedOk(m) ==
  /\ DOMAIN m = {"needs_configure", "once", "once_at", "resize", "resize_at", "is_windowed",
                 "pending_windowed", "is_maximized", "pending_maximized", "geometry"}
  /\ m.pending_windowed \in BOOLEAN /\ m.pending_maximized \in BOOLEAN

TileOk(t) ==
  /\ DOMAIN t = {"floating", "fullscreen", "maximized", "restore_to_floating", "floating_size",
                 "size", "resizing"}
  /\ t.floating \in BOOLEAN /\ t.fullscreen \in BOOLEAN /\ t.maximized \in BOOLEAN
  /\ t.restore_to_floating \in BOOLEAN

WindowOk(w) == DOMAIN w = {"s", "m", "t"} /\ SurfaceOk(w.s) /\ MappedOk(w.m) /\ TileOk(w.t)

\* A window in windowed fullscreen is told that it is fullscreen and not that it is
\* maximized, which is kept apart from what it is told; any other is told what is kept.
Told(w) ==
  /\ w.m.pending_windowed => w.s.pending.fullscreen /\ ~w.s.pending.maximized
  /\ ~w.m.pending_windowed => /\ w.m.pending_maximized = w.s.pending.maximized
                              /\ ~(w.s.pending.fullscreen /\ w.s.pending.maximized)

Agrees(w) == PendingSizingMode(w) = IF w.t.floating THEN "Normal" ELSE ColumnMode(w.t)

\* A window that is what verify_invariants asks for.
Good(w) == WindowOk(w) /\ Told(w) /\ Agrees(w)

\* All but the size that is to be told was sent.
Sent(s) ==
  /\ s.pending.fullscreen = Server(s).fullscreen
  /\ s.pending.maximized = Server(s).maximized

\* A window that does not float, and did not before it was fullscreen or maximized.
Tiled(w) == ~w.t.floating /\ ~w.t.restore_to_floating

---------------------------------------------------------------------------
(* What is asked of a window. *)

\* request_size: the window is told the mode it is asked to have, whether or not it is in
\* windowed fullscreen.
LEMMA RequestSizeFacts ==
  ASSUME NEW w, WindowOk(w), NEW size, NEW mode \in Modes
  PROVE  LET r == RequestSize(w, size, mode)
         IN /\ WindowOk(r) /\ Told(r) /\ PendingSizingMode(r) = mode
            /\ r.t = w.t /\ r.s.sent = w.s.sent
<1> DEFINE r == RequestSize(w, size, mode)
<1>1. DOMAIN r = {"s", "m", "t"} /\ r.t = w.t
  BY DEF RequestSize, WindowOk
<1>2. /\ DOMAIN r.s = {"pending", "sent", "committed"} /\ r.s.sent = w.s.sent
      /\ DOMAIN r.s.pending = {"size", "fullscreen", "maximized", "resizing"}
  BY DEF RequestSize, WindowOk, SurfaceOk, StateOk
<1>3. /\ r.s.pending.fullscreen = (\/ mode = "Fullscreen"
                                   \/ w.m.pending_windowed /\ mode # "Fullscreen")
      /\ r.s.pending.maximized = (mode = "Maximized" /\ ~r.s.pending.fullscreen)
  BY DEF RequestSize, WindowOk, SurfaceOk, StateOk
<1>4. DOMAIN r.m = DOMAIN w.m
  BY DEF RequestSize, WindowOk, MappedOk
<1>5. /\ r.m.pending_windowed = (w.m.pending_windowed /\ mode # "Fullscreen")
      /\ r.m.pending_maximized = (mode = "Maximized")
  BY DEF RequestSize, WindowOk, MappedOk
<1> HIDE DEF r
<1>6. WindowOk(r)
  BY <1>1, <1>2, <1>3, <1>4, <1>5 DEF WindowOk, SurfaceOk, StateOk, MappedOk
<1>7. Told(r) /\ PendingSizingMode(r) = mode
  BY <1>3, <1>5 DEF Told, PendingSizingMode, SizingModeOf, Modes, WindowOk, MappedOk
<1> QED
  BY <1>1, <1>2, <1>6, <1>7 DEF r

\* The mode of a column is one of the three.
LEMMA ColumnModes == \A t : ColumnMode(t) \in Modes
BY DEF ColumnMode, SizingModeOf, Modes

\* update_tile_sizes: a tiled window agrees with its column.
LEMMA UpdateTileSizesFacts ==
  ASSUME NEW w, WindowOk(w)
  PROVE  LET r == UpdateTileSizes(w)
         IN /\ WindowOk(r) /\ r.t = w.t
            /\ ~w.t.floating => Good(r)
<1> DEFINE r == UpdateTileSizes(w)
<1>1. /\ WindowOk(r) /\ Told(r) /\ PendingSizingMode(r) = ColumnMode(w.t)
      /\ r.t = w.t
  BY RequestSizeFacts, ColumnModes DEF UpdateTileSizes
<1> HIDE DEF r
<1> QED
  BY <1>1 DEF Good, Agrees, r

\* Changing nothing but the place of a window leaves what it is told alone.
LEMMA Alike ==
  ASSUME NEW w, WindowOk(w), NEW r, DOMAIN r = {"s", "m", "t"}, r.s = w.s, r.m = w.m, TileOk(r.t)
  PROVE  /\ WindowOk(r)
         /\ PendingSizingMode(r) = PendingSizingMode(w)
         /\ Told(w) => Told(r)
BY DEF WindowOk, PendingSizingMode, Told

\* cancel_resize_for_column
LEMMA CancelResizeFacts ==
  ASSUME NEW w, WindowOk(w)
  PROVE  LET r == CancelResize(w)
         IN /\ WindowOk(r)
            /\ PendingSizingMode(r) = PendingSizingMode(w)
            /\ Told(w) => Told(r)
            /\ r.t.floating = w.t.floating /\ r.t.fullscreen = w.t.fullscreen
            /\ r.t.maximized = w.t.maximized
            /\ r.t.restore_to_floating = w.t.restore_to_floating
<1> DEFINE r == CancelResize(w)
<1>1. DOMAIN r = {"s", "m", "t"}
  BY DEF CancelResize, WindowOk
<1>2. /\ DOMAIN r.s = DOMAIN w.s /\ r.s.sent = w.s.sent
      /\ DOMAIN r.s.pending = DOMAIN w.s.pending
      /\ r.s.pending.fullscreen = w.s.pending.fullscreen
      /\ r.s.pending.maximized = w.s.pending.maximized
  BY DEF CancelResize, WindowOk, SurfaceOk, StateOk
<1>3. /\ DOMAIN r.m = DOMAIN w.m /\ r.m.pending_windowed = w.m.pending_windowed
      /\ r.m.pending_maximized = w.m.pending_maximized
  BY DEF CancelResize, WindowOk, MappedOk
<1>4. /\ DOMAIN r.t = DOMAIN w.t
      /\ r.t.floating = w.t.floating /\ r.t.fullscreen = w.t.fullscreen
      /\ r.t.maximized = w.t.maximized
      /\ r.t.restore_to_floating = w.t.restore_to_floating
  BY DEF CancelResize, WindowOk, TileOk
<1> HIDE DEF r
<1>5. WindowOk(r)
  BY <1>1, <1>2, <1>3, <1>4 DEF WindowOk, SurfaceOk, StateOk, MappedOk, TileOk
<1>6. PendingSizingMode(r) = PendingSizingMode(w) /\ (Told(w) => Told(r))
  BY <1>2, <1>3 DEF PendingSizingMode, Told
<1> QED
  BY <1>4, <1>5, <1>6 DEF r

\* The tile of a window that a column is given, with one of its two modes set.
LEMMA SetTile ==
  ASSUME NEW w, WindowOk(w), NEW sizing \in {"fullscreen", "maximized"}, NEW on \in BOOLEAN
  PROVE  LET r == [w EXCEPT !.t[sizing] = on]
         IN /\ WindowOk(r)
            /\ r.t.floating = w.t.floating
            /\ r.t.restore_to_floating = w.t.restore_to_floating
            /\ r.t[sizing] = on
            /\ \A other \in {"fullscreen", "maximized"} : other # sizing => r.t[other] = w.t[other]
<1> DEFINE r == [w EXCEPT !.t[sizing] = on]
<1>1. DOMAIN r = {"s", "m", "t"} /\ r.s = w.s /\ r.m = w.m
  BY DEF WindowOk
<1>2. /\ DOMAIN r.t = DOMAIN w.t
      /\ r.t.floating = w.t.floating
      /\ r.t.restore_to_floating = w.t.restore_to_floating
      /\ r.t[sizing] = on
      /\ \A other \in {"fullscreen", "maximized"} : other # sizing => r.t[other] = w.t[other]
  BY DEF WindowOk, TileOk
<1> HIDE DEF r
<1>3. TileOk(r.t)
  BY <1>2 DEF TileOk, WindowOk
<1> QED
  BY <1>1, <1>2, <1>3, Alike DEF r

\* ScrollingSpace::set_fullscreen and set_maximized
LEMMA SetColumnFacts ==
  ASSUME NEW w, Good(w), ~w.t.floating,
         NEW sizing \in {"fullscreen", "maximized"}, NEW on \in BOOLEAN
  PROVE  LET r == SetColumn(w, sizing, on)
         IN /\ Good(r) /\ ~r.t.floating
            /\ r.t.restore_to_floating = w.t.restore_to_floating
            /\ r.t[sizing] = on
            /\ \A other \in {"fullscreen", "maximized"} : other # sizing => r.t[other] = w.t[other]
<1> DEFINE r == SetColumn(w, sizing, on)
           c == CancelResize(w)
           d == [c EXCEPT !.t[sizing] = on]
<1>1. CASE w.t[sizing] = on
  BY <1>1 DEF SetColumn
<1>2. CASE w.t[sizing] # on
  <2>1. r = UpdateTileSizes(d)
    BY <1>2 DEF SetColumn
  <2>2. /\ WindowOk(c) /\ c.t.floating = w.t.floating /\ c.t.fullscreen = w.t.fullscreen
        /\ c.t.maximized = w.t.maximized
        /\ c.t.restore_to_floating = w.t.restore_to_floating
    BY CancelResizeFacts DEF Good
  <2> HIDE DEF c, r
  <2>3. /\ WindowOk(d)
        /\ d.t.floating = c.t.floating
        /\ d.t.restore_to_floating = c.t.restore_to_floating
        /\ d.t[sizing] = on
        /\ \A other \in {"fullscreen", "maximized"} : other # sizing => d.t[other] = c.t[other]
    BY <2>2, SetTile
  <2> HIDE DEF d
  <2>4. r.t = d.t /\ Good(r)
    BY <2>1, <2>2, <2>3, UpdateTileSizesFacts
  <2>5. \A other \in {"fullscreen", "maximized"} : c.t[other] = w.t[other]
    BY <2>2
  <2> QED
    BY <2>2, <2>3, <2>4, <2>5 DEF r
<1> QED
  BY <1>1, <1>2

\* Column::new_with_tile: whatever the window was told, it agrees with its new column, and
\* the column is in the mode that the window was told.
LEMMA IntoColumnFacts ==
  ASSUME NEW w, WindowOk(w)
  PROVE  LET r == IntoColumn(w)
         IN /\ Good(r) /\ ~r.t.floating
            /\ r.t.restore_to_floating = w.t.restore_to_floating
            /\ r.t.fullscreen = (PendingSizingMode(w) = "Fullscreen")
            /\ r.t.maximized = (PendingSizingMode(w) = "Maximized")
<1> DEFINE bare == [w EXCEPT !.t.floating = FALSE, !.t.fullscreen = FALSE, !.t.maximized = FALSE]
           normal == UpdateTileSizes(bare)
           full == [normal EXCEPT !.t.fullscreen = TRUE]
           max == [normal EXCEPT !.t.maximized = TRUE]
           r == IntoColumn(w)
<1>1. PendingSizingMode(w) \in Modes
  BY DEF PendingSizingMode, SizingModeOf, Modes
<1>2. r = IF PendingSizingMode(w) = "Fullscreen" THEN UpdateTileSizes(full)
          ELSE IF PendingSizingMode(w) = "Maximized" THEN UpdateTileSizes(max)
          ELSE normal
  BY <1>1 DEF IntoColumn, Modes
<1>3. DOMAIN bare = {"s", "m", "t"} /\ bare.s = w.s /\ bare.m = w.m
  BY DEF WindowOk
<1>4. /\ DOMAIN bare.t = DOMAIN w.t
      /\ bare.t.floating = FALSE /\ bare.t.fullscreen = FALSE /\ bare.t.maximized = FALSE
      /\ bare.t.restore_to_floating = w.t.restore_to_floating
  BY DEF WindowOk, TileOk
<1> HIDE DEF bare, r
<1>5. TileOk(bare.t)
  BY <1>4 DEF TileOk, WindowOk
<1>6. WindowOk(bare)
  BY <1>3, <1>5, Alike
<1>7. WindowOk(normal) /\ normal.t = bare.t /\ Good(normal)
  BY <1>4, <1>6, UpdateTileSizesFacts
<1> HIDE DEF normal
<1>8. /\ WindowOk(full) /\ full.t.floating = FALSE /\ full.t.fullscreen = TRUE
      /\ full.t.maximized = FALSE
      /\ full.t.restore_to_floating = w.t.restore_to_floating
  <2>1. DOMAIN full = {"s", "m", "t"} /\ full.s = normal.s /\ full.m = normal.m
    BY <1>7 DEF WindowOk
  <2>2. /\ DOMAIN full.t = DOMAIN normal.t /\ full.t.fullscreen = TRUE
        /\ full.t.maximized = normal.t.maximized /\ full.t.floating = normal.t.floating
        /\ full.t.restore_to_floating = normal.t.restore_to_floating
    BY <1>7 DEF WindowOk, TileOk
  <2> HIDE DEF full
  <2>3. TileOk(full.t)
    BY <1>7, <2>2 DEF TileOk, WindowOk
  <2> QED
    BY <1>4, <1>7, <2>1, <2>2, <2>3, Alike
<1>9. /\ WindowOk(max) /\ max.t.floating = FALSE /\ max.t.maximized = TRUE
      /\ max.t.fullscreen = FALSE
      /\ max.t.restore_to_floating = w.t.restore_to_floating
  <2>1. DOMAIN max = {"s", "m", "t"} /\ max.s = normal.s /\ max.m = normal.m
    BY <1>7 DEF WindowOk
  <2>2. /\ DOMAIN max.t = DOMAIN normal.t /\ max.t.maximized = TRUE
        /\ max.t.fullscreen = normal.t.fullscreen /\ max.t.floating = normal.t.floating
        /\ max.t.restore_to_floating = normal.t.restore_to_floating
    BY <1>7 DEF WindowOk, TileOk
  <2> HIDE DEF max
  <2>3. TileOk(max.t)
    BY <1>7, <2>2 DEF TileOk, WindowOk
  <2> QED
    BY <1>4, <1>7, <2>1, <2>2, <2>3, Alike
<1> HIDE DEF full, max
<1>10. /\ UpdateTileSizes(full).t = full.t /\ Good(UpdateTileSizes(full))
       /\ UpdateTileSizes(max).t = max.t /\ Good(UpdateTileSizes(max))
  BY <1>8, <1>9, UpdateTileSizesFacts
<1> QED
  BY <1>1, <1>2, <1>4, <1>7, <1>8, <1>9, <1>10 DEF r, Modes

\* FloatingSpace::remove_tile
LEMMA OutOfFloatingFacts ==
  ASSUME NEW w, WindowOk(w)
  PROVE  LET r == OutOfFloating(w)
         IN /\ WindowOk(r) /\ r.s = w.s /\ r.m = w.m
            /\ PendingSizingMode(r) = PendingSizingMode(w)
            /\ Told(w) => Told(r)
            /\ r.t.floating = w.t.floating
            /\ r.t.restore_to_floating = w.t.restore_to_floating
<1> DEFINE r == OutOfFloating(w)
<1>1. DOMAIN r = {"s", "m", "t"} /\ r.s = w.s /\ r.m = w.m
  BY DEF OutOfFloating, WindowOk
<1>2. /\ DOMAIN r.t = DOMAIN w.t
      /\ r.t.floating = w.t.floating /\ r.t.fullscreen = w.t.fullscreen
      /\ r.t.maximized = w.t.maximized
      /\ r.t.restore_to_floating = w.t.restore_to_floating
  BY DEF OutOfFloating, WindowOk, TileOk
<1> HIDE DEF r
<1>3. TileOk(r.t)
  BY <1>2 DEF TileOk, WindowOk
<1> QED
  BY <1>1, <1>2, <1>3, Alike DEF r

\* request_size_once: the window is told to be normal, be it by the configure that is not
\* committed to yet.  That takes a window that is normal already or has nothing but a size
\* left to be told: this is where a request in the same iteration is overlooked.
LEMMA RequestSizeOnceFacts ==
  ASSUME NEW w, WindowOk(w), Told(w), NEW size,
         PendingSizingMode(w) = "Normal" \/ Sent(w.s)
  PROVE  LET r == RequestSizeOnce(w, size)
         IN WindowOk(r) /\ Told(r) /\ PendingSizingMode(r) = "Normal" /\ r.t = w.t
<1> DEFINE r == RequestSizeOnce(w, size)
           last == Last(w.s.sent).state
           early == /\ w.s.sent # <<>> /\ last.size = size /\ ~last.maximized
                    /\ last.fullscreen = w.m.pending_windowed
<1>1. DOMAIN r = {"s", "m", "t"} /\ r.t = w.t
  BY DEF RequestSizeOnce, WindowOk
<1>2. /\ DOMAIN r.s = DOMAIN w.s /\ r.s.sent = w.s.sent
      /\ DOMAIN r.s.pending = DOMAIN w.s.pending
  BY DEF RequestSizeOnce, WindowOk, SurfaceOk, StateOk
<1>3. /\ DOMAIN r.m = DOMAIN w.m /\ r.m.pending_windowed = w.m.pending_windowed
      /\ r.m.pending_maximized = FALSE
  BY DEF RequestSizeOnce, WindowOk, MappedOk
<1>4. early => /\ r.s.pending.fullscreen = w.s.pending.fullscreen
               /\ r.s.pending.maximized = w.s.pending.maximized
  BY DEF RequestSizeOnce, WindowOk, SurfaceOk, StateOk
<1>5. ~early => /\ r.s.pending.fullscreen = (w.s.pending.fullscreen /\ w.m.pending_windowed)
                /\ r.s.pending.maximized = FALSE
  BY DEF RequestSizeOnce, WindowOk, SurfaceOk, StateOk
<1>6. early /\ Sent(w.s) => /\ w.s.pending.fullscreen = w.m.pending_windowed
                            /\ ~w.s.pending.maximized
  BY DEF Sent, Server
<1> HIDE DEF r, early
<1>7. WindowOk(r)
  BY <1>1, <1>2, <1>3, <1>4, <1>5 DEF WindowOk, SurfaceOk, StateOk, MappedOk
<1>8. Told(r) /\ PendingSizingMode(r) = "Normal"
  BY <1>3, <1>4, <1>5, <1>6 DEF Told, PendingSizingMode, SizingModeOf, WindowOk, MappedOk,
     SurfaceOk, StateOk
<1> QED
  BY <1>1, <1>7, <1>8 DEF r

\* FloatingSpace::add_tile
LEMMA IntoFloatingFacts ==
  ASSUME NEW w, WindowOk(w), Told(w), PendingSizingMode(w) = "Normal" \/ Sent(w.s)
  PROVE  LET r == IntoFloating(w)
         IN /\ Good(r) /\ r.t.floating /\ ~r.t.fullscreen /\ ~r.t.maximized
            /\ r.t.restore_to_floating = w.t.restore_to_floating
<1> DEFINE r == IntoFloating(w)
           placed == [w EXCEPT !.t.floating = TRUE, !.t.fullscreen = FALSE,
                               !.t.maximized = FALSE, !.t.resizing = FALSE]
           size == IF w.t.floating_size # NoSize \/ PendingSizingMode(w) # "Normal"
                     THEN OrZero(w.t.floating_size) ELSE OrZero(ExpectedSize(w))
<1>1. r = RequestSizeOnce(placed, size)
  BY DEF IntoFloating
<1>2. DOMAIN placed = {"s", "m", "t"} /\ placed.s = w.s /\ placed.m = w.m
  BY DEF WindowOk
<1>3. /\ DOMAIN placed.t = DOMAIN w.t
      /\ placed.t.floating = TRUE /\ placed.t.fullscreen = FALSE /\ placed.t.maximized = FALSE
      /\ placed.t.restore_to_floating = w.t.restore_to_floating
  BY DEF WindowOk, TileOk
<1> HIDE DEF placed, size, r
<1>4. TileOk(placed.t)
  BY <1>3 DEF TileOk, WindowOk
<1>5. WindowOk(placed) /\ Told(placed) /\ PendingSizingMode(placed) = PendingSizingMode(w)
  BY <1>2, <1>4, Alike
<1>6. WindowOk(r) /\ Told(r) /\ PendingSizingMode(r) = "Normal" /\ r.t = placed.t
  BY <1>1, <1>2, <1>5, RequestSizeOnceFacts
<1> QED
  BY <1>3, <1>6 DEF Good, Agrees, r

\* toggle_window_floating
LEMMA ToggleWindowFloatingFacts ==
  ASSUME NEW w, Good(w), w.t.floating \/ Sent(w.s)
  PROVE  LET r == ToggleWindowFloating(w)
         IN /\ Good(r) /\ r.t.floating = ~w.t.floating
            /\ r.t.restore_to_floating = w.t.restore_to_floating
<1>1. CASE w.t.floating
  <2> DEFINE out == OutOfFloating(w)
  <2>1. WindowOk(out) /\ out.t.restore_to_floating = w.t.restore_to_floating
    BY OutOfFloatingFacts DEF Good
  <2>2. ToggleWindowFloating(w) = IntoColumn(out)
    BY <1>1 DEF ToggleWindowFloating
  <2> HIDE DEF out
  <2> QED
    BY <1>1, <2>1, <2>2, IntoColumnFacts DEF Good, WindowOk, TileOk
<1>2. CASE ~w.t.floating
  BY <1>2, IntoFloatingFacts DEF ToggleWindowFloating, Good
<1> QED
  BY <1>1, <1>2

\* request_windowed_fullscreen: what the window is told changes and its mode does not.
LEMMA RequestWindowedFacts ==
  ASSUME NEW w, Good(w), NEW value \in BOOLEAN, value => PendingSizingMode(w) # "Fullscreen"
  PROVE  LET r == RequestWindowedFullscreen(w, value) IN Good(r) /\ r.t = w.t
<1> DEFINE r == RequestWindowedFullscreen(w, value)
<1>1. CASE w.m.pending_windowed = value
  BY <1>1 DEF RequestWindowedFullscreen
<1>2. CASE w.m.pending_windowed # value
  <2>1. DOMAIN r = {"s", "m", "t"} /\ r.t = w.t
    BY DEF RequestWindowedFullscreen, Good, WindowOk
  <2>2. /\ DOMAIN r.s = DOMAIN w.s /\ r.s.sent = w.s.sent
        /\ DOMAIN r.s.pending = DOMAIN w.s.pending
        /\ r.s.pending.fullscreen = value
        /\ r.s.pending.maximized = (~value /\ (w.s.pending.maximized \/ w.m.pending_maximized))
    BY <1>2 DEF RequestWindowedFullscreen, Good, WindowOk, SurfaceOk, StateOk
  <2>3. /\ DOMAIN r.m = DOMAIN w.m /\ r.m.pending_windowed = value
        /\ r.m.pending_maximized = w.m.pending_maximized
    BY <1>2 DEF RequestWindowedFullscreen, Good, WindowOk, MappedOk
  <2> HIDE DEF r
  <2>4. WindowOk(r)
    BY <2>1, <2>2, <2>3 DEF Good, WindowOk, SurfaceOk, StateOk, MappedOk
  <2>5. Told(r) /\ PendingSizingMode(r) = PendingSizingMode(w)
    BY <1>2, <2>2, <2>3 DEF Good, Told, PendingSizingMode, SizingModeOf, WindowOk, MappedOk,
       SurfaceOk, StateOk
  <2> QED
    BY <2>1, <2>4, <2>5 DEF Good, Agrees, r
<1> QED
  BY <1>1, <1>2

\* Where the window goes once it is no longer fullscreen or maximized.
LEMMA RestoreFacts ==
  ASSUME NEW w, Good(w), NEW restore \in BOOLEAN
  PROVE  LET r == [w EXCEPT !.t.restore_to_floating = restore]
         IN /\ Good(r) /\ r.s = w.s /\ r.m = w.m
            /\ r.t.floating = w.t.floating /\ r.t.fullscreen = w.t.fullscreen
            /\ r.t.maximized = w.t.maximized
            /\ r.t.restore_to_floating = restore
<1> DEFINE r == [w EXCEPT !.t.restore_to_floating = restore]
<1>1. DOMAIN r = {"s", "m", "t"} /\ r.s = w.s /\ r.m = w.m
  BY DEF Good, WindowOk
<1>2. /\ DOMAIN r.t = DOMAIN w.t
      /\ r.t.floating = w.t.floating /\ r.t.fullscreen = w.t.fullscreen
      /\ r.t.maximized = w.t.maximized
      /\ r.t.restore_to_floating = restore
  BY DEF Good, WindowOk, TileOk
<1> HIDE DEF r
<1>3. TileOk(r.t)
  BY <1>2 DEF TileOk, Good, WindowOk
<1>4. WindowOk(r) /\ Told(r) /\ PendingSizingMode(r) = PendingSizingMode(w)
  BY <1>1, <1>3, Alike DEF Good
<1>5. ColumnMode(r.t) = ColumnMode(w.t)
  BY <1>2 DEF ColumnMode
<1> QED
  BY <1>1, <1>2, <1>4, <1>5 DEF Good, Agrees, r

\* The column of a window is in a mode as before, but for the one that is set.
OtherKept(t, u, sizing) ==
  \A other \in {"fullscreen", "maximized"} : other # sizing => u[other] = t[other]

\* Workspace::set_fullscreen and set_maximized: a window that is to be restored to floating
\* must have been told all but its size.
LEMMA SetSizingFacts ==
  ASSUME NEW w, Good(w), NEW sizing \in {"fullscreen", "maximized"}, NEW on \in BOOLEAN,
         on \/ Tiled(w) \/ Sent(w.s)
  PROVE  LET r == SetSizing(w, sizing, on)
         IN /\ Good(r)
            /\ Tiled(w) => Tiled(r)
            /\ on \/ r.t.floating \/ ~r.t[sizing]
            /\ on /\ ~w.t.floating => r.t[sizing] /\ OtherKept(w.t, r.t, sizing)
<1> DEFINE r == SetSizing(w, sizing, on)
           tiled == IF w.t.floating THEN ToggleWindowFloating(w) ELSE w
           new == SetColumn(tiled, sizing, on)
           ends == IF sizing = "fullscreen" THEN w.t.fullscreen /\ ~w.t.maximized
                                            ELSE PendingSizingMode(w) = "Maximized"
           restored == [new EXCEPT !.t.restore_to_floating = w.t.floating]
<1>1. w.t.floating \in BOOLEAN /\ w.t.restore_to_floating \in BOOLEAN
  BY DEF Good, WindowOk, TileOk
<1>2. CASE w.t.floating /\ ~on
  <2>1. r = w
    BY <1>2 DEF SetSizing
  <2> QED
    BY <1>2, <2>1 DEF Tiled
<1>3. CASE ~w.t.floating /\ ~on /\ ends /\ w.t.restore_to_floating
  <2>1. r = ToggleWindowFloating(w)
    BY <1>3 DEF SetSizing
  <2>2. Sent(w.s)
    BY <1>3 DEF Tiled
  <2>3. Good(r) /\ r.t.floating = ~w.t.floating
    BY <2>1, <2>2, ToggleWindowFloatingFacts
  <2> QED
    BY <1>3, <2>3 DEF Tiled
<1>4. CASE /\ ~(w.t.floating /\ ~on)
           /\ ~(~w.t.floating /\ ~on /\ ends /\ w.t.restore_to_floating)
  <2>1. r = new \/ r = restored
    BY <1>4 DEF SetSizing
  <2>2. /\ Good(tiled) /\ ~tiled.t.floating
        /\ tiled.t.restore_to_floating = w.t.restore_to_floating
        /\ ~w.t.floating => tiled = w
    BY <1>1, ToggleWindowFloatingFacts
  <2> HIDE DEF tiled, r
  <2>3. /\ Good(new) /\ ~new.t.floating
        /\ new.t.restore_to_floating = tiled.t.restore_to_floating
        /\ new.t[sizing] = on
        /\ \A other \in {"fullscreen", "maximized"} : other # sizing => new.t[other] = tiled.t[other]
    BY <2>2, SetColumnFacts
  <2> HIDE DEF new
  <2>4. /\ Good(restored)
        /\ restored.t.floating = new.t.floating /\ restored.t.fullscreen = new.t.fullscreen
        /\ restored.t.maximized = new.t.maximized
        /\ restored.t.restore_to_floating = w.t.floating
    BY <1>1, <2>3, RestoreFacts
  <2> HIDE DEF restored
  <2>5. /\ Good(r) /\ ~r.t.floating
        /\ r.t.fullscreen = new.t.fullscreen /\ r.t.maximized = new.t.maximized
        /\ ~w.t.floating /\ ~w.t.restore_to_floating => ~r.t.restore_to_floating
    BY <1>1, <2>1, <2>2, <2>3, <2>4
  <2>6. \A other \in {"fullscreen", "maximized"} : r.t[other] = new.t[other]
    BY <2>5
  <2>7. r.t[sizing] = on
    BY <2>3, <2>6
  <2>8. ~w.t.floating => OtherKept(w.t, r.t, sizing)
    BY <2>2, <2>3, <2>6 DEF OtherKept
  <2> QED
    BY <2>5, <2>7, <2>8 DEF Tiled, r
<1> QED
  BY <1>2, <1>3, <1>4

\* Layout::set_fullscreen
LEMMA SetFullscreenFacts ==
  ASSUME NEW w, Good(w), NEW on \in BOOLEAN, on \/ Tiled(w) \/ Sent(w.s)
  PROVE  LET r == SetFullscreen(w, on) IN Good(r) /\ (Tiled(w) => Tiled(r))
<1>1. CASE ~on /\ w.m.pending_windowed
  <2>1. SetFullscreen(w, on) = RequestWindowedFullscreen(w, FALSE)
    BY <1>1 DEF SetFullscreen
  <2> QED
    BY <2>1, RequestWindowedFacts DEF Tiled
<1>2. CASE ~(~on /\ w.m.pending_windowed)
  BY <1>2, SetSizingFacts DEF SetFullscreen
<1> QED
  BY <1>1, <1>2

\* Layout::toggle_windowed_fullscreen
LEMMA ToggleWindowedFacts ==
  ASSUME NEW w, Good(w), Tiled(w) \/ Sent(w.s)
  PROVE  LET r == ToggleWindowedFullscreen(w) IN Good(r) /\ (Tiled(w) => Tiled(r))
<1> DEFINE v == IF PendingSizingMode(w) = "Fullscreen" THEN SetSizing(w, "fullscreen", FALSE) ELSE w
           off == FALSE
<1>1. Good(v) /\ (Tiled(w) => Tiled(v)) /\ PendingSizingMode(v) # "Fullscreen"
  <2>1. CASE PendingSizingMode(w) = "Fullscreen"
    <3>1. off \in BOOLEAN /\ off = FALSE
      OBVIOUS
    <3> HIDE DEF off
    <3>2. LET r == SetSizing(w, "fullscreen", off)
          IN /\ Good(r) /\ (Tiled(w) => Tiled(r))
             /\ off \/ r.t.floating \/ ~r.t["fullscreen"]
      BY <3>1, SetSizingFacts
    <3>3. Good(v) /\ (Tiled(w) => Tiled(v)) /\ (v.t.floating \/ ~v.t.fullscreen)
      BY <2>1, <3>1, <3>2
    <3> HIDE DEF v
    <3> QED
      BY <3>3 DEF Good, Agrees, ColumnMode, SizingModeOf
  <2>2. CASE PendingSizingMode(w) # "Fullscreen"
    BY <2>2
  <2> QED
    BY <2>1, <2>2
<1>2. ToggleWindowedFullscreen(w) = RequestWindowedFullscreen(v, ~v.m.pending_windowed)
  BY DEF ToggleWindowedFullscreen
<1> HIDE DEF v
<1>3. (~v.m.pending_windowed) \in BOOLEAN
  OBVIOUS
<1> QED
  BY <1>1, <1>2, <1>3, RequestWindowedFacts DEF Tiled

\* Layout::move_to_output
LEMMA MoveToOutputFacts ==
  ASSUME NEW w, Good(w)
  PROVE  LET r == MoveToOutput(w) IN Good(r) /\ (Tiled(w) => Tiled(r))
<1> DEFINE removed == IF w.t.floating THEN OutOfFloating(w) ELSE [w EXCEPT !.t.resizing = FALSE]
           added == [removed EXCEPT !.t.restore_to_floating = w.t.floating]
<1>1. /\ WindowOk(removed) /\ Told(removed)
      /\ PendingSizingMode(removed) = PendingSizingMode(w)
  <2>1. CASE w.t.floating
    BY <2>1, OutOfFloatingFacts DEF Good
  <2>2. CASE ~w.t.floating
    <3> DEFINE q == [w EXCEPT !.t.resizing = FALSE]
    <3>1. DOMAIN q = {"s", "m", "t"} /\ q.s = w.s /\ q.m = w.m
      BY DEF Good, WindowOk
    <3>2. TileOk(q.t)
      BY DEF Good, WindowOk, TileOk
    <3> HIDE DEF q
    <3>3. WindowOk(q) /\ PendingSizingMode(q) = PendingSizingMode(w) /\ Told(q)
      BY <3>1, <3>2, Alike DEF Good
    <3> QED
      BY <2>2, <3>3 DEF q
  <2> QED
    BY <2>1, <2>2
<1> HIDE DEF removed
<1>2. /\ DOMAIN added = {"s", "m", "t"} /\ added.s = removed.s /\ added.m = removed.m
  BY <1>1 DEF WindowOk
<1>3. TileOk(added.t) /\ added.t.restore_to_floating = w.t.floating
  BY <1>1 DEF WindowOk, TileOk, Good
<1>4. MoveToOutput(w) = IF w.t.floating /\ PendingSizingMode(w) = "Normal" THEN IntoFloating(added)
                        ELSE IntoColumn(added)
  BY DEF MoveToOutput, removed
<1> HIDE DEF added
<1>5. /\ WindowOk(added) /\ Told(added)
      /\ PendingSizingMode(added) = PendingSizingMode(w)
  BY <1>1, <1>2, <1>3, Alike
<1>6. CASE w.t.floating /\ PendingSizingMode(w) = "Normal"
  BY <1>4, <1>5, <1>6, IntoFloatingFacts DEF Tiled
<1>7. CASE ~(w.t.floating /\ PendingSizingMode(w) = "Normal")
  BY <1>3, <1>4, <1>5, <1>7, IntoColumnFacts DEF Tiled
<1> QED
  BY <1>6, <1>7

---------------------------------------------------------------------------
(* Configures and commits. *)

\* What is a sequence of anything is a sequence of its elements.
LEMMA SeqOfOwn ==
  ASSUME NEW S, NEW q \in Seq(S)
  PROVE  IsSeq(q)
BY DEF IsSeq

\* send_configure: what is pending is what the window was told last.
LEMMA SendConfigureFacts ==
  ASSUME NEW s, SurfaceOk(s), NEW maximized, NEW windowed
  PROVE  LET r == SendConfigure(s, maximized, windowed)
         IN SurfaceOk(r) /\ r.pending = s.pending /\ Server(r) = s.pending
<1> DEFINE r == SendConfigure(s, maximized, windowed)
           e == [state |-> s.pending, maximized |-> maximized, windowed |-> windowed]
           S == {s.sent[i] : i \in DOMAIN s.sent} \cup {e}
<1>1. /\ DOMAIN r = DOMAIN s /\ r.pending = s.pending /\ r.committed = s.committed
      /\ r.sent = Append(s.sent, e)
  BY DEF SendConfigure, SurfaceOk
<1>2. s.sent \in Seq(S) /\ e \in S
  BY DEF SurfaceOk, IsSeq
<1>3. e.state = s.pending
  OBVIOUS
<1> HIDE DEF r, e, S
<1>4. /\ r.sent \in Seq(S) /\ Len(r.sent) = Len(s.sent) + 1
      /\ r.sent[Len(s.sent) + 1] = e
  BY <1>1, <1>2
<1>5. r.sent # <<>> /\ Last(r.sent) = e
  BY <1>2, <1>4 DEF Last
<1>6. SurfaceOk(r)
  BY <1>1, <1>4, SeqOfOwn DEF SurfaceOk
<1>7. Server(r) = s.pending
  BY <1>3, <1>5 DEF Server
<1> QED
  BY <1>1, <1>6, <1>7 DEF r

\* What a commit leaves of the configures, and what it leaves alone.
LEMMA CommitToFacts ==
  ASSUME NEW s, SurfaceOk(s), NEW k \in 0 .. Len(s.sent)
  PROVE  SurfaceOk(CommitTo(s, k)) /\ CommitTo(s, k).pending = s.pending
<1> DEFINE r == CommitTo(s, k)
           S == {s.sent[i] : i \in DOMAIN s.sent}
<1>1. DOMAIN r = DOMAIN s /\ r.pending = s.pending /\ r.sent = SubSeq(s.sent, k + 1, Len(s.sent))
  BY DEF CommitTo, SurfaceOk
<1>2. s.sent \in Seq(S)
  BY DEF SurfaceOk, IsSeq
<1> HIDE DEF r, S
<1>3. r.sent \in Seq(S)
  BY <1>1, <1>2
<1> QED
  BY <1>1, <1>3, SeqOfOwn DEF SurfaceOk, r

\* A window of which neither the modes it is told nor its place change.
LEMMA StillGood ==
  ASSUME NEW w, Good(w), NEW r, DOMAIN r = {"s", "m", "t"}, r.t = w.t,
         SurfaceOk(r.s), r.s.pending.fullscreen = w.s.pending.fullscreen,
         r.s.pending.maximized = w.s.pending.maximized,
         MappedOk(r.m), r.m.pending_windowed = w.m.pending_windowed,
         r.m.pending_maximized = w.m.pending_maximized
  PROVE  Good(r)
<1>1. WindowOk(r)
  BY DEF Good, WindowOk
<1>2. Told(r) /\ PendingSizingMode(r) = PendingSizingMode(w)
  BY DEF Good, Told, PendingSizingMode
<1> QED
  BY <1>1, <1>2 DEF Good, Agrees

\* set_interactive_resize
LEMMA SetInteractiveResizeFacts ==
  ASSUME NEW w, Good(w)
  PROVE  Good(SetInteractiveResize(w)) /\ SetInteractiveResize(w).t = w.t
<1> DEFINE r == SetInteractiveResize(w)
<1>1. DOMAIN r = {"s", "m", "t"} /\ r.t = w.t
  BY DEF SetInteractiveResize, Good, WindowOk
<1>2. /\ DOMAIN r.s = DOMAIN w.s /\ r.s.sent = w.s.sent
      /\ DOMAIN r.s.pending = DOMAIN w.s.pending
      /\ r.s.pending.fullscreen = w.s.pending.fullscreen
      /\ r.s.pending.maximized = w.s.pending.maximized
  BY DEF SetInteractiveResize, Good, WindowOk, SurfaceOk, StateOk
<1>3. /\ DOMAIN r.m = DOMAIN w.m /\ r.m.pending_windowed = w.m.pending_windowed
      /\ r.m.pending_maximized = w.m.pending_maximized
  BY DEF SetInteractiveResize, Good, WindowOk, MappedOk
<1> HIDE DEF r
<1>4. SurfaceOk(r.s) /\ MappedOk(r.m)
  BY <1>2, <1>3 DEF Good, WindowOk, SurfaceOk, StateOk, MappedOk
<1> QED
  BY <1>1, <1>2, <1>3, <1>4, StillGood DEF r

\* send_pending_configure: it leaves nothing but a size to be told.
LEMMA SendPendingConfigureFacts ==
  ASSUME NEW w, Good(w)
  PROVE  LET r == SendPendingConfigure(w) IN Good(r) /\ Sent(r.s) /\ r.t = w.t
<1> DEFINE r == SendPendingConfigure(w)
           own == w.m.once = "UseWindowSize"
           pending == [w.s.pending EXCEPT
                         !.size = IF own /\ ~w.m.needs_configure THEN Server(w.s).size ELSE @]
           state == [pending EXCEPT !.size = IF own THEN w.m.geometry ELSE @]
           serial == Len(w.s.sent) + 1
           told == [w.s EXCEPT !.pending = state]
           max == Filed(w.m.pending_maximized, FiledMaximized(w.s.sent, w.m.is_maximized))
           full == Filed(w.m.pending_windowed, FiledWindowed(w.s.sent, w.m.is_windowed))
<1>1. /\ DOMAIN pending = DOMAIN w.s.pending
      /\ pending.fullscreen = w.s.pending.fullscreen
      /\ pending.maximized = w.s.pending.maximized
  BY DEF Good, WindowOk, SurfaceOk, StateOk
<1>2. CASE w.m.needs_configure \/ pending # Server(w.s)
  <2> DEFINE m == [w.m EXCEPT
                      !.needs_configure = FALSE,
                      !.resize = IF @ = "WaitingForLastConfigure" THEN "WaitingForLastCommit" ELSE @,
                      !.resize_at = IF w.m.resize = "WaitingForLastConfigure" THEN serial ELSE @,
                      !.once = IF @ = "WaitingForConfigure" THEN "WaitingForCommit" ELSE @,
                      !.once_at = IF w.m.once = "WaitingForConfigure" THEN serial ELSE @]
  <2>1. r = [s |-> SendConfigure(told, max, full), m |-> m, t |-> w.t]
    BY <1>2 DEF SendPendingConfigure
  <2>2. /\ DOMAIN m = DOMAIN w.m /\ m.pending_windowed = w.m.pending_windowed
        /\ m.pending_maximized = w.m.pending_maximized
    <3> HIDE DEF serial
    <3> QED
      BY DEF Good, WindowOk, MappedOk
  <2> HIDE DEF m
  <2>3. /\ r.s = SendConfigure(told, max, full) /\ r.t = w.t /\ r.m = m
        /\ DOMAIN r = {"s", "m", "t"}
    BY <2>1
  <2> HIDE DEF r, max, full, pending
  <2>4. /\ DOMAIN state = DOMAIN pending /\ state.fullscreen = pending.fullscreen
        /\ state.maximized = pending.maximized
    BY <1>1 DEF Good, WindowOk, SurfaceOk, StateOk
  <2> HIDE DEF state
  <2>5. DOMAIN told = DOMAIN w.s /\ told.pending = state /\ told.sent = w.s.sent
    BY DEF Good, WindowOk, SurfaceOk
  <2> HIDE DEF told
  <2>6. SurfaceOk(told)
    BY <1>1, <2>4, <2>5 DEF Good, WindowOk, SurfaceOk, StateOk
  <2>7. SurfaceOk(r.s) /\ r.s.pending = state /\ Server(r.s) = state
    BY <2>3, <2>5, <2>6, SendConfigureFacts
  <2>8. MappedOk(r.m)
    BY <2>2, <2>3 DEF Good, WindowOk, MappedOk
  <2>9. Good(r)
    BY <1>1, <2>2, <2>3, <2>4, <2>7, <2>8, StillGood
  <2>10. Sent(r.s)
    BY <2>7 DEF Sent
  <2> QED
    BY <2>3, <2>9, <2>10 DEF r
<1>3. CASE ~(w.m.needs_configure \/ pending # Server(w.s))
  <2>1. r = [w EXCEPT !.s.pending = pending,
                      !.m.resize = IF @ = "WaitingForLastConfigure" THEN "None" ELSE @]
    BY <1>3 DEF SendPendingConfigure
  <2> HIDE DEF pending, r
  <2>2. /\ DOMAIN r = {"s", "m", "t"} /\ r.t = w.t
        /\ DOMAIN r.s = DOMAIN w.s /\ r.s.pending = pending /\ r.s.sent = w.s.sent
        /\ r.s.committed = w.s.committed
    BY <2>1 DEF Good, WindowOk, SurfaceOk
  <2>3. /\ DOMAIN r.m = DOMAIN w.m /\ r.m.pending_windowed = w.m.pending_windowed
        /\ r.m.pending_maximized = w.m.pending_maximized
    BY <2>1 DEF Good, WindowOk, MappedOk
  <2>4. SurfaceOk(r.s) /\ MappedOk(r.m)
    BY <1>1, <2>2, <2>3 DEF Good, WindowOk, SurfaceOk, StateOk, MappedOk
  <2>5. Good(r)
    BY <1>1, <2>2, <2>3, <2>4, StillGood
  <2>6. Server(r.s) = Server(w.s)
    BY <2>2 DEF Server
  <2>7. Sent(r.s)
    BY <1>3, <2>2, <2>6 DEF Sent
  <2> QED
    BY <2>2, <2>5, <2>7 DEF r
<1> QED
  BY <1>2, <1>3

\* A refresh leaves nothing but a size to be told, be it throttled or not.
LEMMA RefreshFacts ==
  ASSUME NEW w, Good(w)
  PROVE  LET r == RefreshWindow(w) IN Good(r) /\ Sent(r.s) /\ r.t = w.t
<1> DEFINE r == RefreshWindow(w)
           v == SetInteractiveResize(w)
<1>1. Good(v) /\ v.t = w.t
  BY SetInteractiveResizeFacts
<1>2. \/ r = v /\ ConfigureIntent(v) \in {"NotNeeded", "Throttled"}
      \/ r = SendPendingConfigure(v)
  BY DEF RefreshWindow
<1> HIDE DEF v
<1>3. CASE r = v /\ ConfigureIntent(v) \in {"NotNeeded", "Throttled"}
  <2> DEFINE same == [v.s.pending EXCEPT !.size = Server(v.s).size] = Server(v.s)
  <2>1. v.s.pending = Server(v.s) \/ same
    BY <1>3 DEF ConfigureIntent
  <2>2. /\ [v.s.pending EXCEPT !.size = Server(v.s).size].fullscreen = v.s.pending.fullscreen
        /\ [v.s.pending EXCEPT !.size = Server(v.s).size].maximized = v.s.pending.maximized
    BY <1>1 DEF Good, WindowOk, SurfaceOk, StateOk
  <2>3. Sent(v.s)
    BY <2>1, <2>2 DEF Sent
  <2> QED
    BY <1>1, <1>3, <2>3
<1>4. CASE r = SendPendingConfigure(v)
  BY <1>1, <1>4, SendPendingConfigureFacts
<1> QED
  BY <1>2, <1>3, <1>4

---------------------------------------------------------------------------
(* Opening. *)

\* Mapped::new and what follows: a window that opens agrees with its space, and is as fullscreen
\* and as maximized as it was told or was to be after that.
LEMMA OpenedFacts ==
  ASSUME NEW s, SurfaceOk(s), NEW size, NEW floating \in BOOLEAN, NEW maximized \in BOOLEAN
  PROVE  LET r == Opened(s, size, floating, maximized)
         IN /\ Good(r)
            /\ ~floating => Tiled(r)
            /\ r.t.fullscreen = s.pending.fullscreen
            /\ r.t.maximized = IF s.pending.fullscreen THEN maximized ELSE s.pending.maximized
<1> DEFINE r == Opened(s, size, floating, maximized)
           m == [Unopened EXCEPT
                   !.geometry = size,
                   !.is_maximized = SizingModeOf(s.committed.fullscreen,
                                                 s.committed.maximized) = "Maximized",
                   !.pending_maximized = SizingModeOf(s.pending.fullscreen,
                                                      s.pending.maximized) = "Maximized"]
           t == [NoTile EXCEPT !.size = size, !.restore_to_floating = floating]
           new == [s |-> s, m |-> m, t |-> t]
           added == IF floating /\ PendingSizingMode(new) = "Normal" THEN IntoFloating(new)
                    ELSE IntoColumn(new)
           grown == SetSizing(added, "maximized", TRUE)
           mode == SizingModeOf(s.pending.fullscreen, s.pending.maximized)
<1>1. r = IF PendingSizingMode(added) = "Fullscreen" /\ maximized THEN grown ELSE added
  BY DEF Opened
<1>2. /\ MappedOk(m) /\ m.pending_windowed = FALSE
      /\ m.pending_maximized = (mode = "Maximized")
  BY DEF MappedOk, Unopened
<1>3. TileOk(t) /\ t.restore_to_floating = floating
  BY DEF TileOk, NoTile
<1> HIDE DEF m, t, mode, r
<1>4. WindowOk(new) /\ new.s = s /\ new.m = m /\ new.t = t
  BY <1>2, <1>3 DEF WindowOk
<1> HIDE DEF new
<1>5. PendingSizingMode(new) = mode
  BY <1>2, <1>4 DEF PendingSizingMode, mode
<1>6. mode = "Normal" => Told(new)
  BY <1>2, <1>4 DEF Told, mode, SizingModeOf, SurfaceOk, StateOk
<1>7. /\ Good(added)
      /\ added.t.restore_to_floating = floating
      /\ added.t.floating = (floating /\ mode = "Normal")
      /\ added.t.fullscreen = (mode = "Fullscreen")
      /\ added.t.maximized = (mode = "Maximized")
  <2>1. CASE floating /\ mode = "Normal"
    <3>1. added = IntoFloating(new)
      BY <1>5, <2>1
    <3> HIDE DEF added
    <3>2. /\ Good(added) /\ added.t.floating /\ ~added.t.fullscreen /\ ~added.t.maximized
          /\ added.t.restore_to_floating = new.t.restore_to_floating
      BY <1>4, <1>5, <1>6, <2>1, <3>1, IntoFloatingFacts
    <3>3. TileOk(added.t)
      BY <3>2 DEF Good, WindowOk
    <3> QED
      BY <1>3, <1>4, <2>1, <3>2, <3>3 DEF TileOk
  <2>2. CASE ~(floating /\ mode = "Normal")
    <3>1. added = IntoColumn(new)
      BY <1>5, <2>2
    <3> HIDE DEF added
    <3>2. /\ Good(added) /\ ~added.t.floating
          /\ added.t.restore_to_floating = new.t.restore_to_floating
          /\ added.t.fullscreen = (mode = "Fullscreen")
          /\ added.t.maximized = (mode = "Maximized")
      BY <1>4, <1>5, <3>1, IntoColumnFacts
    <3>3. TileOk(added.t)
      BY <3>2 DEF Good, WindowOk
    <3> QED
      BY <1>3, <1>4, <2>2, <3>2, <3>3 DEF TileOk
  <2> QED
    BY <2>1, <2>2
<1> HIDE DEF added
<1>8. PendingSizingMode(added) = "Fullscreen" <=> mode = "Fullscreen"
  BY <1>7 DEF Good, Agrees, ColumnMode, SizingModeOf
<1>9. mode = "Fullscreen" =>
        /\ Good(grown)
        /\ Tiled(added) => Tiled(grown)
        /\ grown.t.maximized /\ grown.t.fullscreen = added.t.fullscreen
  <2> DEFINE on == TRUE
             sizing == "maximized"
             other == "fullscreen"
  <2>1. /\ on \in BOOLEAN /\ on /\ sizing \in {"fullscreen", "maximized"}
        /\ other \in {"fullscreen", "maximized"} /\ other # sizing
    OBVIOUS
  <2>2. grown = SetSizing(added, sizing, on)
    OBVIOUS
  <2> HIDE DEF on, sizing, other, grown
  <2>3. /\ Good(grown) /\ (Tiled(added) => Tiled(grown))
        /\ on /\ ~added.t.floating =>
             grown.t[sizing] /\ OtherKept(added.t, grown.t, sizing)
    <3>1. Good(added) /\ (on \/ Tiled(added) \/ Sent(added.s))
      BY <1>7, <2>1
    <3> QED
      BY <2>1, <2>2, <3>1, SetSizingFacts
  <2>4. grown.t[other] = added.t[other] \/ added.t.floating
    BY <2>1, <2>3 DEF OtherKept
  <2> QED
    BY <1>7, <2>1, <2>3, <2>4 DEF sizing, other
<1> HIDE DEF grown
<1>10. /\ mode = "Fullscreen" <=> s.pending.fullscreen
       /\ mode = "Maximized" <=> ~s.pending.fullscreen /\ s.pending.maximized
  BY DEF mode, SizingModeOf
<1>11. s.pending.fullscreen \in BOOLEAN /\ s.pending.maximized \in BOOLEAN
  BY DEF SurfaceOk, StateOk
<1>12. Good(r) /\ (~floating => Tiled(r))
  BY <1>1, <1>7, <1>8, <1>9 DEF Tiled
<1>13. TileOk(grown.t) \/ mode # "Fullscreen"
  BY <1>9 DEF Good, WindowOk
<1>14. /\ r.t.fullscreen = s.pending.fullscreen
       /\ r.t.maximized = IF s.pending.fullscreen THEN maximized ELSE s.pending.maximized
  BY <1>1, <1>7, <1>8, <1>9, <1>10, <1>11, <1>13 DEF TileOk
<1> QED
  BY <1>12, <1>14 DEF r

---------------------------------------------------------------------------
(* The monitor a window is configured for. *)

\* A monitor that was picked is there, and is that of the parent if the parent is followed.
Chosen(mon) ==
  /\ mon.on # NoOutput => mon.on \in env.connected
  /\ mon.parent => mon.on = env.parent
  /\ mon.on = NoOutput => env.connected = {}

\* The monitor of the parent, or the active one.
LEMMA FallbackChosen ==
  ASSUME env \in Envs
  PROVE  \A mon \in Fallback : Chosen(mon)
BY ToplevelAssumption DEF Envs, Fallback, Chosen

\* A monitor that is wanted, if it is there.
LEMMA PreferChosen ==
  ASSUME env \in Envs, NEW o, NEW otherwise, \A mon \in otherwise : Chosen(mon)
  PROVE  \A mon \in Prefer(o, otherwise) : Chosen(mon)
BY ToplevelAssumption DEF Envs, Prefer, Chosen

---------------------------------------------------------------------------
(* The inductive invariant. *)

UnmappedOk(u) ==
  /\ DOMAIN u = {"wants_fullscreen", "wants_output", "wants_maximized", "idle", "output", "named",
                 "is_pending_maximized", "stray"}
  /\ u.wants_fullscreen \in BOOLEAN /\ u.wants_maximized \in BOOLEAN
  /\ u.is_pending_maximized \in BOOLEAN

AskedOk(a) ==
  /\ DOMAIN a = {"fullscreen", "maximized", "ignored", "on", "elsewhere"}
  /\ a.fullscreen \in BOOLEAN /\ a.maximized \in BOOLEAN

\* What the client was told before it mapped and what it is to be told later make up what it
\* asked for, unless a request was ignored.
AsAsked(s, u, a) ==
  a.ignored \/ /\ s.pending.fullscreen = a.fullscreen
               /\ u.is_pending_maximized = a.maximized
               /\ s.pending.maximized = (a.maximized /\ ~a.fullscreen)

\* The output that sizes were picked for is there, is the one to open on or that of the
\* parent, and is where the named workspace is, if there is one.
WherePicked(u, e, a) ==
  a.on # NoOutput =>
    /\ a.on \in e.connected
    /\ u.output = a.on \/ (u.output = NoOutput /\ e.parent = a.on)
    /\ a.elsewhere \/ ~u.named \/ e.named \in {NoOutput, a.on}

UnmappedInv ==
  /\ phase # "Mapped" => SurfaceOk(surface) /\ UnmappedOk(un) /\ AskedOk(asked)
  /\ phase \in {"NotConfigured", "Configured"} => env \in Envs
  /\ phase = "Configured" => AsAsked(surface, un, asked) /\ WherePicked(un, env, asked)

\* The one kind of window that may disagree with its space: one that floats and is asked for
\* two things in one iteration, of which request_size_once may overlook the first.
Rushed == scenario.floating /\ scenario.batched

MappedInv ==
  phase = "Mapped" /\ ~Rushed =>
    /\ Good(Window)
    /\ fresh => Sent(surface)
    /\ ~scenario.floating => Tiled(Window)

ToplevelInv == scenario \in ScenarioType /\ UnmappedInv /\ MappedInv

\* The window that an action leaves behind is the one it made.
LEMMA ChangedWindow ==
  ASSUME NEW r, Good(r), Becomes(r)
  PROVE  /\ Good(Window') /\ Window'.t = r.t
         /\ Tiled(r) => Tiled(Window')
         /\ surface' = r.s
<1> DEFINE v == Window'
<1>1. v.s = r.s /\ v.m = r.m /\ v.t = r.t /\ DOMAIN v = {"s", "m", "t"}
  BY DEF Window, Becomes
<1> HIDE DEF v
<1>2. WindowOk(v)
  BY <1>1 DEF Good, WindowOk
<1>3. Told(v) /\ PendingSizingMode(v) = PendingSizingMode(r)
  BY <1>1 DEF Good, Told, PendingSizingMode
<1>4. Good(v) /\ (Tiled(r) => Tiled(v))
  BY <1>1, <1>2, <1>3 DEF Good, Agrees, Tiled
<1> QED
  BY <1>1, <1>4 DEF Becomes, v

\* A window that starts afresh.
LEMMA BareOk == SurfaceOk(Bare) /\ UnmappedOk(NewUnmapped) /\ AskedOk(NothingAsked)
<1>1. SurfaceOk(Bare)
  <2>1. <<>> \in Seq({})
    OBVIOUS
  <2>2. IsSeq(<<>>)
    BY <2>1, SeqOfOwn
  <2>3. StateOk(State(0, FALSE, FALSE))
    BY DEF StateOk, State
  <2> QED
    BY <2>2, <2>3 DEF SurfaceOk, Bare
<1>2. UnmappedOk(NewUnmapped) /\ AskedOk(NothingAsked)
  BY DEF UnmappedOk, NewUnmapped, AskedOk, NothingAsked
<1> QED
  BY <1>1, <1>2

\* Nothing is there at first.
LEMMA ToplevelInit == Init => ToplevelInv
<1> SUFFICES ASSUME Init PROVE ToplevelInv
  OBVIOUS
<1>1. scenario \in ScenarioType
  BY ToplevelAssumption DEF Init
<1>2. UnmappedInv
  BY BareOk DEF Init, UnmappedInv
<1>3. MappedInv
  BY DEF Init, MappedInv
<1> QED
  BY <1>1, <1>2, <1>3 DEF ToplevelInv

\* What is done to a mapped window, which stays in the layout.
LEMMA ActStep ==
  ASSUME ToplevelInv, NEW w, Act(w),
         ~Rushed /\ Good(Window) /\ (Tiled(Window) \/ Sent(surface))
           => Good(w) /\ (Tiled(Window) /\ ~scenario.floating => Tiled(w))
  PROVE  ToplevelInv'
<1>1. /\ phase = "Mapped" /\ phase' = "Mapped" /\ scenario' = scenario /\ fresh' = FALSE
      /\ fresh \/ scenario.batched
      /\ Becomes(w)
  BY DEF Act
<1>2. scenario.floating \in BOOLEAN /\ scenario.batched \in BOOLEAN
  BY DEF ToplevelInv, ScenarioType
<1>3. ASSUME ~Rushed
      PROVE  Good(Window') /\ (~scenario.floating => Tiled(Window'))
  <2>1. Good(Window) /\ (fresh => Sent(surface)) /\ (~scenario.floating => Tiled(Window))
    BY <1>1, <1>3 DEF ToplevelInv, MappedInv
  <2>2. Tiled(Window) \/ Sent(surface)
    BY <1>1, <1>3, <2>1 DEF Rushed
  <2>3. Good(w) /\ (~scenario.floating => Tiled(w))
    BY <1>3, <2>1, <2>2
  <2> QED
    BY <1>1, <2>3, ChangedWindow
<1>4. MappedInv'
  BY <1>1, <1>3 DEF MappedInv, Rushed
<1>5. UnmappedInv'
  BY <1>1 DEF UnmappedInv
<1> QED
  BY <1>1, <1>4, <1>5 DEF ToplevelInv

\* A mapped window that a configure is owed to is as it was.
LEMMA OwedFacts ==
  ASSUME Good(Window)
  PROVE  Good(Owed) /\ Owed.t = Window.t /\ Owed.s = surface
<1> DEFINE r == Owed
<1>1. DOMAIN r = {"s", "m", "t"} /\ r.s = Window.s /\ r.t = Window.t /\ Window.s = surface
  BY DEF Owed, Window
<1>2. /\ DOMAIN r.m = DOMAIN Window.m /\ r.m.pending_windowed = Window.m.pending_windowed
      /\ r.m.pending_maximized = Window.m.pending_maximized
  BY DEF Owed, Window, Good, WindowOk, MappedOk
<1> HIDE DEF r
<1>3. SurfaceOk(r.s) /\ MappedOk(r.m)
  BY <1>1, <1>2 DEF Good, WindowOk, MappedOk
<1>4. Good(r)
  BY <1>1, <1>2, <1>3, StillGood
<1> QED
  BY <1>1, <1>4 DEF r

---------------------------------------------------------------------------
(* The steps of a mapped window. *)

\* The requests of a mapped window.
LEMMA RequestMappedStep ==
  ASSUME ToplevelInv, NEW sizing \in {"fullscreen", "maximized"}, NEW on \in BOOLEAN,
         NEW elsewhere \in BOOLEAN, elsewhere => on, RequestMapped(sizing, on, elsewhere)
  PROVE  ToplevelInv'
<1> DEFINE moved == IF elsewhere THEN MoveToOutput(Owed) ELSE Owed
           w == IF sizing = "fullscreen" THEN SetFullscreen(moved, on)
                ELSE SetSizing(Owed, sizing, on)
<1>1. Act(w)
  BY DEF RequestMapped
<1>2. ASSUME Good(Window), Tiled(Window) \/ Sent(surface)
      PROVE  Good(w) /\ (Tiled(Window) => Tiled(w))
  <2>1. /\ Good(Owed) /\ (Tiled(Window) => Tiled(Owed))
        /\ Tiled(Owed) \/ Sent(Owed.s)
    BY <1>2, OwedFacts DEF Tiled
  <2>2. /\ Good(moved) /\ (Tiled(Owed) => Tiled(moved))
        /\ on \/ Tiled(moved) \/ Sent(moved.s)
    BY <2>1, MoveToOutputFacts
  <2> HIDE DEF moved
  <2>3. CASE sizing = "fullscreen"
    BY <2>1, <2>2, <2>3, SetFullscreenFacts
  <2>4. CASE sizing # "fullscreen"
    BY <2>1, <2>4, SetSizingFacts
  <2> QED
    BY <2>3, <2>4
<1> HIDE DEF w
<1> QED
  BY <1>1, <1>2, ActStep

\* The user's actions.
LEMMA ToggleStep ==
  ASSUME ToplevelInv, ToggleFullscreen \/ ToggleMaximized \/ ToggleWindowed \/ ToggleFloating
                        \/ MoveWindow
  PROVE  ToplevelInv'
<1> DEFINE full == SetSizing(Window, "fullscreen", PendingSizingMode(Window) # "Fullscreen")
           max == SetSizing(Window, "maximized", tile.floating \/ ~tile.maximized)
           windowed == ToggleWindowedFullscreen(Window)
           floated == ToggleWindowFloating(Window)
           moved == MoveToOutput(Window)
<1>1. Window.s = surface /\ Window.t = tile
  BY DEF Window
<1>2. CASE ToggleFullscreen
  <2>1. Act(full)
    BY <1>2 DEF ToggleFullscreen
  <2> DEFINE on == PendingSizingMode(Window) # "Fullscreen"
  <2>2. full = SetSizing(Window, "fullscreen", on) /\ on \in BOOLEAN
    OBVIOUS
  <2> HIDE DEF on, full
  <2>3. Good(Window) /\ (Tiled(Window) \/ Sent(surface))
          => Good(full) /\ (Tiled(Window) => Tiled(full))
    BY <1>1, <2>2, SetSizingFacts
  <2> QED
    BY <2>1, <2>3, ActStep
<1>3. CASE ToggleMaximized
  <2>1. Act(max)
    BY <1>3 DEF ToggleMaximized
  <2> DEFINE on == tile.floating \/ ~tile.maximized
  <2>2. max = SetSizing(Window, "maximized", on) /\ on \in BOOLEAN
    OBVIOUS
  <2> HIDE DEF on, max
  <2>3. Good(Window) /\ (Tiled(Window) \/ Sent(surface))
          => Good(max) /\ (Tiled(Window) => Tiled(max))
    BY <1>1, <2>2, SetSizingFacts
  <2> QED
    BY <2>1, <2>3, ActStep
<1>4. CASE ToggleWindowed
  <2>1. Act(windowed)
    BY <1>4 DEF ToggleWindowed
  <2>2. Good(Window) /\ (Tiled(Window) \/ Sent(surface))
          => Good(windowed) /\ (Tiled(Window) => Tiled(windowed))
    BY <1>1, ToggleWindowedFacts
  <2> HIDE DEF windowed
  <2> QED
    BY <2>1, <2>2, ActStep
<1>5. CASE ToggleFloating
  <2>1. Act(floated) /\ scenario.floating
    BY <1>5 DEF ToggleFloating
  <2>2. phase = "Mapped" /\ (fresh \/ scenario.batched)
    BY <2>1 DEF Act
  <2>3. ~Rushed => Sent(surface)
    BY <2>1, <2>2 DEF Rushed, ToplevelInv, MappedInv
  <2>4. ~Rushed /\ Good(Window) => Good(floated)
    BY <1>1, <2>3, ToggleWindowFloatingFacts
  <2> HIDE DEF floated
  <2> QED
    BY <2>1, <2>4, ActStep
<1>6. CASE MoveWindow
  <2>1. Act(moved)
    BY <1>6 DEF MoveWindow
  <2>2. Good(Window) => Good(moved) /\ (Tiled(Window) => Tiled(moved))
    BY MoveToOutputFacts
  <2> HIDE DEF moved
  <2> QED
    BY <2>1, <2>2, ActStep
<1> QED
  BY <1>2, <1>3, <1>4, <1>5, <1>6

\* A tiled or a floating window is resized.
LEMMA ResizeStep ==
  ASSUME ToplevelInv, Resize
  PROVE  ToplevelInv'
<1>1. PICK size \in Sizes :
        \/ ~tile.floating /\ Act(UpdateTileSizes([Window EXCEPT !.t.size = size]))
        \/ tile.floating /\ Act(RequestSizeOnce(Window, size))
  BY DEF Resize
<1>2. Window.s = surface /\ Window.t = tile
  BY DEF Window
<1>3. CASE ~tile.floating /\ Act(UpdateTileSizes([Window EXCEPT !.t.size = size]))
  <2> DEFINE v == [Window EXCEPT !.t.size = size]
             w == UpdateTileSizes(v)
  <2>1. Act(w)
    BY <1>3
  <2>2. ASSUME Good(Window)
        PROVE  WindowOk(v) /\ v.t.floating = tile.floating
                 /\ v.t.restore_to_floating = tile.restore_to_floating
    <3>1. DOMAIN v = {"s", "m", "t"} /\ v.s = Window.s /\ v.m = Window.m
      BY DEF Window
    <3>2. /\ DOMAIN v.t = DOMAIN tile
          /\ v.t.floating = tile.floating /\ v.t.fullscreen = tile.fullscreen
          /\ v.t.maximized = tile.maximized
          /\ v.t.restore_to_floating = tile.restore_to_floating
      BY <2>2 DEF Good, WindowOk, TileOk, Window
    <3> HIDE DEF v
    <3>3. TileOk(v.t)
      BY <1>2, <2>2, <3>2 DEF Good, WindowOk, TileOk
    <3>4. WindowOk(Window)
      BY <2>2 DEF Good
    <3> QED
      BY <3>1, <3>2, <3>3, <3>4, Alike
  <2> HIDE DEF v
  <2>3. Good(Window) => Good(w) /\ (Tiled(Window) => Tiled(w))
    BY <1>2, <1>3, <2>2, UpdateTileSizesFacts DEF Tiled
  <2> HIDE DEF w
  <2> QED
    BY <2>1, <2>3, ActStep
<1>4. CASE tile.floating /\ Act(RequestSizeOnce(Window, size))
  <2> DEFINE w == RequestSizeOnce(Window, size)
  <2>1. Good(Window) => PendingSizingMode(Window) = "Normal"
    BY <1>2, <1>4 DEF Good, Agrees
  <2>2. Good(Window) => WindowOk(w) /\ Told(w) /\ PendingSizingMode(w) = "Normal" /\ w.t = Window.t
    BY <2>1, RequestSizeOnceFacts DEF Good
  <2>3. Act(w)
    BY <1>4
  <2> HIDE DEF w
  <2>4. Good(Window) => Good(w) /\ (Tiled(Window) => Tiled(w))
    BY <1>2, <1>4, <2>2 DEF Good, Agrees, Tiled
  <2> QED
    BY <2>3, <2>4, ActStep
<1> QED
  BY <1>1, <1>3, <1>4

\* An interactive resize begins or ends.
LEMMA InteractiveResizeStep ==
  ASSUME ToplevelInv, InteractiveResize
  PROVE  ToplevelInv'
<1> DEFINE w == [Window EXCEPT !.t.resizing = ~@]
<1>1. Act(w)
  BY DEF InteractiveResize
<1>2. ASSUME Good(Window)
      PROVE  Good(w) /\ (Tiled(Window) => Tiled(w))
  <2>1. DOMAIN w = {"s", "m", "t"} /\ w.s = Window.s /\ w.m = Window.m
    BY DEF Window
  <2>2. /\ DOMAIN w.t = DOMAIN Window.t
        /\ w.t.floating = Window.t.floating /\ w.t.fullscreen = Window.t.fullscreen
        /\ w.t.maximized = Window.t.maximized
        /\ w.t.restore_to_floating = Window.t.restore_to_floating
    BY <1>2 DEF Good, WindowOk, TileOk, Window
  <2> HIDE DEF w
  <2>3. TileOk(w.t) /\ WindowOk(Window)
    BY <1>2, <2>2 DEF Good, WindowOk, TileOk
  <2>4. WindowOk(w) /\ PendingSizingMode(w) = PendingSizingMode(Window) /\ Told(w)
    BY <1>2, <2>1, <2>3, Alike DEF Good
  <2> QED
    BY <1>2, <2>2, <2>4 DEF Good, Agrees, Tiled, ColumnMode
<1> HIDE DEF w
<1> QED
  BY <1>1, <1>2, ActStep

\* The refresh at the end of an iteration.
LEMMA RefreshStep ==
  ASSUME ToplevelInv, Refresh
  PROVE  ToplevelInv'
<1> DEFINE w == RefreshWindow(Window)
<1>1. /\ phase = "Mapped" /\ phase' = "Mapped" /\ scenario' = scenario
      /\ Becomes(w)
  BY DEF Refresh
<1>2. ASSUME ~Rushed
      PROVE  Good(Window') /\ Sent(surface') /\ (~scenario.floating => Tiled(Window'))
  <2>1. Good(Window) /\ (~scenario.floating => Tiled(Window))
    BY <1>1, <1>2 DEF ToplevelInv, MappedInv
  <2>2. Good(w) /\ Sent(w.s) /\ w.t = Window.t
    BY <2>1, RefreshFacts
  <2> HIDE DEF w
  <2>3. Tiled(Window) => Tiled(w)
    BY <2>2 DEF Tiled
  <2> QED
    BY <1>1, <2>1, <2>2, <2>3, ChangedWindow
<1>3. MappedInv'
  BY <1>1, <1>2 DEF MappedInv, Rushed
<1>4. UnmappedInv'
  BY <1>1 DEF UnmappedInv
<1> QED
  BY <1>1, <1>3, <1>4 DEF ToplevelInv

\* A window after a commit with a size of its own.
Committed(m, sent, k, size) == [OnCommit(m, sent, k) EXCEPT !.geometry = size]

\* on_commit keeps what the window is to be told.
LEMMA OnCommitFacts ==
  ASSUME NEW m, MappedOk(m), NEW sent, NEW k, NEW size
  PROVE  LET r == Committed(m, sent, k, size)
         IN /\ MappedOk(r) /\ r.pending_windowed = m.pending_windowed
            /\ r.pending_maximized = m.pending_maximized
<1> DEFINE a == FiledWindowed(SubSeq(sent, 1, k), m.is_windowed)
           b == FiledMaximized(SubSeq(sent, 1, k), m.is_maximized)
           c == IF m.resize = "WaitingForLastCommit" /\ m.resize_at <= k THEN "None" ELSE m.resize
           d == IF m.resize_at <= k THEN 0 ELSE m.resize_at - k
           e == IF m.once = "WaitingForCommit" /\ m.once_at <= k THEN "UseWindowSize" ELSE m.once
           f == IF m.once_at <= k THEN 0 ELSE m.once_at - k
           o == [m EXCEPT !.resize = c, !.resize_at = d, !.once = e, !.once_at = f,
                          !.is_windowed = a, !.is_maximized = b]
<1>1. OnCommit(m, sent, k) = o
  BY DEF OnCommit
<1> HIDE DEF a, b, c, d, e, f
<1>2. /\ DOMAIN o = DOMAIN m /\ o.pending_windowed = m.pending_windowed
      /\ o.pending_maximized = m.pending_maximized
  BY DEF MappedOk
<1> HIDE DEF o
<1> DEFINE r == [o EXCEPT !.geometry = size]
<1>3. /\ DOMAIN r = DOMAIN m /\ r.pending_windowed = m.pending_windowed
      /\ r.pending_maximized = m.pending_maximized
  BY <1>2 DEF MappedOk
<1>4. r = Committed(m, sent, k, size)
  BY <1>1 DEF Committed
<1> HIDE DEF r
<1>5. MappedOk(r)
  BY <1>3 DEF MappedOk
<1> QED
  BY <1>3, <1>4, <1>5

\* A commit of a mapped window.
LEMMA CommitStep ==
  ASSUME ToplevelInv, Commit
  PROVE  ToplevelInv'
<1>1. PICK k \in 0 .. Len(surface.sent) : \E size :
        Becomes([s |-> CommitTo(surface, k), t |-> tile,
                 m |-> Committed(win, surface.sent, k, size)])
  BY DEF Commit, Committed
<1>2. phase = "Mapped" /\ phase' = "Mapped" /\ scenario' = scenario /\ fresh' = FALSE
  BY DEF Commit
<1> PICK size : Becomes([s |-> CommitTo(surface, k), t |-> tile,
                         m |-> Committed(win, surface.sent, k, size)])
  BY <1>1
<1> DEFINE m == Committed(win, surface.sent, k, size)
           w == [s |-> CommitTo(surface, k), t |-> tile, m |-> m]
<1>3. Becomes(w)
  OBVIOUS
<1>4. ASSUME ~Rushed
      PROVE  Good(Window') /\ (~scenario.floating => Tiled(Window'))
  <2>1. Good(Window) /\ (~scenario.floating => Tiled(Window))
    BY <1>2, <1>4 DEF ToplevelInv, MappedInv
  <2>2. Window.s = surface /\ Window.m = win /\ Window.t = tile
    BY DEF Window
  <2>3. SurfaceOk(surface) /\ MappedOk(win)
    BY <2>1, <2>2 DEF Good, WindowOk
  <2>4. SurfaceOk(CommitTo(surface, k)) /\ CommitTo(surface, k).pending = surface.pending
    BY <2>3, CommitToFacts
  <2>5. /\ MappedOk(m) /\ m.pending_windowed = win.pending_windowed
        /\ m.pending_maximized = win.pending_maximized
    BY <2>3, OnCommitFacts
  <2> HIDE DEF m
  <2>6. /\ DOMAIN w = {"s", "m", "t"} /\ w.t = tile /\ w.m = m
        /\ w.s = CommitTo(surface, k)
    OBVIOUS
  <2> HIDE DEF w
  <2>7. Good(w)
    BY <2>1, <2>2, <2>4, <2>5, <2>6, StillGood
  <2>8. Tiled(Window) => Tiled(w)
    BY <2>2, <2>6 DEF Tiled
  <2> QED
    BY <1>3, <2>1, <2>7, <2>8, ChangedWindow
<1>5. MappedInv'
  BY <1>2, <1>4 DEF MappedInv, Rushed
<1>6. UnmappedInv'
  BY <1>2 DEF UnmappedInv
<1> QED
  BY <1>2, <1>5, <1>6 DEF ToplevelInv

\* A window that opens.
LEMMA MapStep ==
  ASSUME ToplevelInv, Map
  PROVE  ToplevelInv'
<1>1. /\ phase' = "Mapped" /\ scenario' = scenario /\ fresh' = FALSE /\ phase # "Mapped"
  BY DEF Map
<1>2. PICK s, size, floating, maximized :
        /\ SurfaceOk(s) /\ floating \in {FALSE, scenario.floating} /\ maximized \in BOOLEAN
        /\ Becomes(Opened(s, size, floating, maximized))
  <2>1. SurfaceOk(surface) /\ un.is_pending_maximized \in BOOLEAN
    BY <1>1 DEF ToplevelInv, UnmappedInv, UnmappedOk
  <2>2. PICK size \in Sizes, floating \in {FALSE, scenario.floating} :
          \/ \E k \in 1 .. Len(surface.sent) :
               Becomes(Opened(CommitTo(surface, k), size, floating, un.is_pending_maximized))
          \/ Becomes(Opened(surface, size, floating, FALSE))
    BY DEF Map
  <2>3. CASE Becomes(Opened(surface, size, floating, FALSE))
    BY <2>1, <2>2, <2>3
  <2>4. ASSUME NEW k \in 1 .. Len(surface.sent),
               Becomes(Opened(CommitTo(surface, k), size, floating, un.is_pending_maximized))
        PROVE  \E s : /\ SurfaceOk(s)
                      /\ Becomes(Opened(s, size, floating, un.is_pending_maximized))
    <3>1. k \in 0 .. Len(surface.sent)
      OBVIOUS
    <3> QED
      BY <2>1, <2>4, <3>1, CommitToFacts
  <2> QED
    BY <2>1, <2>2, <2>3, <2>4
<1>3. floating \in BOOLEAN /\ (~scenario.floating => ~floating)
  BY <1>2 DEF ToplevelInv, ScenarioType
<1> DEFINE w == Opened(s, size, floating, maximized)
<1>4. Good(w) /\ (~floating => Tiled(w))
  BY <1>2, <1>3, OpenedFacts
<1>5. Becomes(w)
  BY <1>2
<1> HIDE DEF w
<1>6. Good(Window') /\ (~scenario.floating => Tiled(Window'))
  BY <1>3, <1>4, <1>5, ChangedWindow
<1>7. MappedInv'
  BY <1>1, <1>6 DEF MappedInv
<1>8. UnmappedInv'
  BY <1>1 DEF UnmappedInv
<1> QED
  BY <1>1, <1>7, <1>8 DEF ToplevelInv

---------------------------------------------------------------------------
(* The steps of an unmapped window. *)

\* A toplevel is created, or starts afresh, or is gone.
LEMMA AfreshStep ==
  ASSUME ToplevelInv, NewToplevel \/ Unmap \/ Destroy
  PROVE  ToplevelInv'
<1>1. /\ phase' \in {"NotConfigured", "Gone"} /\ scenario' = scenario
      /\ phase' = "NotConfigured" => env' \in Envs
  <2>1. Quiet \in Envs
    BY DEF Quiet, Envs
  <2> QED
    BY <2>1 DEF NewToplevel, Unmap, Destroy
<1>2. SurfaceOk(surface') /\ UnmappedOk(un') /\ AskedOk(asked')
  <2>1. CASE NewToplevel
    BY <2>1, BareOk DEF NewToplevel, ToplevelInv, UnmappedInv
  <2>2. CASE Unmap
    <3> DEFINE v == [NewUnmapped EXCEPT !.stray = surface.sent # <<>>]
    <3>1. UnmappedOk(v)
      BY DEF UnmappedOk, NewUnmapped
    <3> HIDE DEF v
    <3> QED
      BY <2>2, <3>1, BareOk DEF Unmap, Blank, v
  <2>3. CASE Destroy
    BY <2>3, BareOk DEF Destroy, Blank
  <2> QED
    BY <2>1, <2>2, <2>3
<1>3. UnmappedInv' /\ MappedInv'
  BY <1>1, <1>2 DEF UnmappedInv, MappedInv
<1> QED
  BY <1>1, <1>3 DEF ToplevelInv

\* Outputs, the named workspace and the parent come and go: where the window opens is open again.
LEMMA EnvironmentStep ==
  ASSUME ToplevelInv, EnvironmentChanges
  PROVE  ToplevelInv'
<1>1. /\ phase \in {"NotConfigured", "Configured"} /\ phase' = phase /\ scenario' = scenario
      /\ un' = un /\ surface' = surface /\ env' \in Envs
  BY DEF EnvironmentChanges
<1>2. SurfaceOk(surface) /\ UnmappedOk(un) /\ AskedOk(asked)
  BY <1>1 DEF ToplevelInv, UnmappedInv
<1>3. /\ DOMAIN asked' = DOMAIN asked /\ asked'.on = NoOutput
      /\ asked'.fullscreen = asked.fullscreen /\ asked'.maximized = asked.maximized
      /\ asked'.ignored = asked.ignored
  BY <1>2 DEF EnvironmentChanges, AskedOk
<1>4. AskedOk(asked')
  BY <1>2, <1>3 DEF AskedOk
<1>5. AsAsked(surface, un, asked) => AsAsked(surface', un', asked')
  BY <1>1, <1>3 DEF AsAsked
<1>6. WherePicked(un', env', asked')
  BY <1>3 DEF WherePicked
<1>7. UnmappedInv' /\ MappedInv'
  BY <1>1, <1>2, <1>4, <1>5, <1>6 DEF ToplevelInv, UnmappedInv, MappedInv
<1> QED
  BY <1>1, <1>7 DEF ToplevelInv

\* A commit without a buffer.
LEMMA CommitUnmappedStep ==
  ASSUME ToplevelInv, CommitUnmapped
  PROVE  ToplevelInv'
<1>1. /\ phase \in {"NotConfigured", "Configured"} /\ phase' = phase /\ scenario' = scenario
      /\ env' = env /\ asked' = asked
  BY DEF CommitUnmapped
<1>2. SurfaceOk(surface) /\ UnmappedOk(un) /\ AskedOk(asked)
  BY <1>1 DEF ToplevelInv, UnmappedInv
<1>3. CASE phase = "NotConfigured"
  <2>1. un' = [un EXCEPT !.idle = TRUE] /\ surface' = surface
    BY <1>3 DEF CommitUnmapped
  <2>2. UnmappedOk(un')
    BY <1>2, <2>1 DEF UnmappedOk
  <2>3. UnmappedInv' /\ MappedInv'
    BY <1>1, <1>2, <1>3, <2>1, <2>2 DEF ToplevelInv, UnmappedInv, MappedInv
  <2> QED
    BY <1>1, <2>3 DEF ToplevelInv
<1>4. CASE phase = "Configured"
  <2>1. PICK k \in 1 .. Len(surface.sent) : surface' = CommitTo(surface, k)
    BY <1>4 DEF CommitUnmapped
  <2>2. un' = un /\ k \in 0 .. Len(surface.sent)
    BY <1>4 DEF CommitUnmapped
  <2>3. SurfaceOk(surface') /\ surface'.pending = surface.pending
    BY <1>2, <2>1, <2>2, CommitToFacts
  <2>4. AsAsked(surface, un, asked) => AsAsked(surface', un, asked)
    BY <2>3 DEF AsAsked
  <2>5. UnmappedInv' /\ MappedInv'
    BY <1>1, <1>2, <1>4, <2>2, <2>3, <2>4 DEF ToplevelInv, UnmappedInv, MappedInv
  <2> QED
    BY <1>1, <2>5 DEF ToplevelInv
<1> QED
  BY <1>1, <1>3, <1>4

\* A request before the initial configure.
LEMMA RequestEarlyStep ==
  ASSUME ToplevelInv, NEW sizing, NEW on \in BOOLEAN, NEW o, RequestEarly(sizing, on, o)
  PROVE  ToplevelInv'
<1>1. /\ phase = "NotConfigured" /\ phase' = phase /\ scenario' = scenario
      /\ env' = env /\ asked' = asked /\ surface' = surface
      /\ un' = IF sizing = "fullscreen"
                 THEN [un EXCEPT !.wants_fullscreen = on,
                                 !.wants_output = IF on THEN o ELSE NoOutput]
                 ELSE [un EXCEPT !.wants_maximized = on]
  BY DEF RequestEarly
<1>2. UnmappedOk(un')
  <2>1. UnmappedOk(un)
    BY <1>1 DEF ToplevelInv, UnmappedInv
  <2> QED
    BY <1>1, <2>1 DEF UnmappedOk
<1>3. UnmappedInv' /\ MappedInv'
  BY <1>1, <1>2 DEF ToplevelInv, UnmappedInv, MappedInv
<1> QED
  BY <1>1, <1>3 DEF ToplevelInv

\* What configure_new_window leaves alone.
LEMMA ConfigureNewWindowFacts ==
  ASSUME NEW state, StateOk(state), NEW size
  PROVE  LET r == ConfigureNewWindow(state, size)
         IN StateOk(r) /\ r.fullscreen = state.fullscreen /\ r.maximized = state.maximized
BY DEF ConfigureNewWindow, StateOk

\* The pending state of an unmapped window is changed and sent.
LEMMA ConfiguredSurface ==
  ASSUME NEW s, SurfaceOk(s), NEW p, StateOk(p)
  PROVE  LET r == SendConfigure([s EXCEPT !.pending = p], {}, {})
         IN SurfaceOk(r) /\ r.pending = p
<1> DEFINE q == [s EXCEPT !.pending = p]
<1>1. SurfaceOk(q) /\ q.pending = p
  BY DEF SurfaceOk
<1> HIDE DEF q
<1>2. LET r == SendConfigure(q, {}, {}) IN SurfaceOk(r) /\ r.pending = p
  BY <1>1, SendConfigureFacts
<1> QED
  BY <1>2 DEF q

\* The initial configure.
LEMMA InitialConfigureStep ==
  ASSUME ToplevelInv, InitialConfigure
  PROVE  ToplevelInv'
<1>1. /\ phase = "NotConfigured" /\ phase' = "Configured" /\ scenario' = scenario /\ env' = env
  BY DEF InitialConfigure
<1>2. SurfaceOk(surface) /\ UnmappedOk(un) /\ env \in Envs
  BY <1>1 DEF ToplevelInv, UnmappedInv
<1>3. PICK rules \in Rules, size \in DefaultSizes :
      \E mon \in Prefer(NamedOn(rules.workspace),
                   Prefer(rules.output, Prefer(un.wants_output, Fallback))) :
        LET found == HasWorkspace(mon, rules.workspace)
            fullscreen == Ruled(rules.fullscreen, un.wants_fullscreen)
            maximized == Ruled(rules.maximized, un.wants_maximized)
            state == State(0, fullscreen, maximized /\ ~fullscreen)
        IN /\ \E named \in IF ~found THEN {FALSE}
                           ELSE IF rules.workspace THEN {TRUE}
                           ELSE {FALSE, env.named = mon.on} :
                un' = [NewUnmapped EXCEPT !.output = TargetOutput(mon), !.named = named,
                                          !.is_pending_maximized = found /\ maximized]
           /\ surface' = SendConfigure(
                [surface EXCEPT !.pending = IF found THEN ConfigureNewWindow(state, size) ELSE @],
                {}, {})
           /\ asked' = [fullscreen |-> fullscreen, maximized |-> maximized, ignored |-> ~found,
                        on |-> IF found THEN mon.on ELSE NoOutput, elsewhere |-> FALSE]
  BY DEF InitialConfigure
<1> DEFINE fullscreen == Ruled(rules.fullscreen, un.wants_fullscreen)
           maximized == Ruled(rules.maximized, un.wants_maximized)
           state == State(0, fullscreen, maximized /\ ~fullscreen)
           found(mon) == HasWorkspace(mon, rules.workspace)
           p(mon) == IF found(mon) THEN ConfigureNewWindow(state, size) ELSE surface.pending
<1>4. PICK mon \in Prefer(NamedOn(rules.workspace),
                     Prefer(rules.output, Prefer(un.wants_output, Fallback))) :
        /\ \E named \in IF ~found(mon) THEN {FALSE}
                        ELSE IF rules.workspace THEN {TRUE}
                        ELSE {FALSE, env.named = mon.on} :
             un' = [NewUnmapped EXCEPT !.output = TargetOutput(mon), !.named = named,
                                       !.is_pending_maximized = found(mon) /\ maximized]
        /\ surface' = SendConfigure([surface EXCEPT !.pending = p(mon)], {}, {})
        /\ asked' = [fullscreen |-> fullscreen, maximized |-> maximized, ignored |-> ~found(mon),
                     on |-> IF found(mon) THEN mon.on ELSE NoOutput, elsewhere |-> FALSE]
  BY <1>3
<1>5. fullscreen \in BOOLEAN /\ maximized \in BOOLEAN
  BY <1>2 DEF Ruled, UnmappedOk
<1>6. Chosen(mon)
  <2> DEFINE a == Prefer(un.wants_output, Fallback)
             b == Prefer(rules.output, a)
  <2>1. \A x \in a : Chosen(x)
    BY <1>2, FallbackChosen, PreferChosen
  <2> HIDE DEF a
  <2>2. \A x \in b : Chosen(x)
    BY <1>2, <2>1, PreferChosen
  <2> HIDE DEF b
  <2>3. mon \in Prefer(NamedOn(rules.workspace), b)
    BY <1>4 DEF a, b
  <2> QED
    BY <1>2, <2>2, <2>3, PreferChosen
<1> HIDE DEF fullscreen, maximized
<1>7. /\ StateOk(state) /\ state.fullscreen = fullscreen
      /\ state.maximized = (maximized /\ ~fullscreen)
  BY <1>5 DEF State, StateOk
<1> HIDE DEF state
<1>8. /\ StateOk(p(mon))
      /\ found(mon) => /\ p(mon).fullscreen = fullscreen
                       /\ p(mon).maximized = (maximized /\ ~fullscreen)
  <2>1. LET r == ConfigureNewWindow(state, size)
        IN StateOk(r) /\ r.fullscreen = state.fullscreen /\ r.maximized = state.maximized
    BY <1>7, ConfigureNewWindowFacts
  <2>2. StateOk(surface.pending)
    BY <1>2 DEF SurfaceOk
  <2> QED
    BY <1>7, <2>1, <2>2
<1>9. PICK named \in IF ~found(mon) THEN {FALSE}
                     ELSE IF rules.workspace THEN {TRUE}
                     ELSE {FALSE, env.named = mon.on} :
        un' = [NewUnmapped EXCEPT !.output = TargetOutput(mon), !.named = named,
                                  !.is_pending_maximized = found(mon) /\ maximized]
  BY <1>4
<1>10. found(mon) => mon.on # NoOutput /\ (named => env.named = mon.on)
  BY <1>9 DEF HasWorkspace
<1> HIDE DEF p
<1>11. SurfaceOk(surface') /\ surface'.pending = p(mon)
  BY <1>2, <1>4, <1>8, ConfiguredSurface
<1>12. /\ DOMAIN asked' = {"fullscreen", "maximized", "ignored", "on", "elsewhere"}
       /\ asked'.fullscreen = fullscreen /\ asked'.maximized = maximized
       /\ asked'.ignored = ~found(mon) /\ asked'.elsewhere = FALSE
       /\ asked'.on = IF found(mon) THEN mon.on ELSE NoOutput
  BY <1>4
<1> HIDE DEF found
<1>13. /\ UnmappedOk(un') /\ un'.output = TargetOutput(mon) /\ un'.named = named
       /\ un'.is_pending_maximized = (found(mon) /\ maximized)
  BY <1>9 DEF UnmappedOk, NewUnmapped
<1>14. AskedOk(asked')
  BY <1>5, <1>12 DEF AskedOk
<1>15. AsAsked(surface', un', asked')
  BY <1>5, <1>8, <1>11, <1>12, <1>13 DEF AsAsked
<1>16. WherePicked(un', env', asked')
  BY <1>1, <1>6, <1>10, <1>12, <1>13 DEF WherePicked, Chosen, TargetOutput
<1>17. UnmappedInv' /\ MappedInv'
  BY <1>1, <1>2, <1>11, <1>13, <1>14, <1>15, <1>16 DEF UnmappedInv, MappedInv
<1> QED
  BY <1>1, <1>17 DEF ToplevelInv

\* A request after the initial configure.
LEMMA RequestLateStep ==
  ASSUME ToplevelInv, NEW sizing \in {"fullscreen", "maximized"}, NEW on \in BOOLEAN, NEW o,
         RequestLate(sizing, on, o)
  PROVE  ToplevelInv'
<1> DEFINE Monitors == IF on THEN Prefer(IF o # NoOutput THEN o ELSE un.output, Fallback)
                       ELSE Prefer(NamedOn(un.named), Prefer(un.output, Fallback))
           found(mon) == HasWorkspace(mon, ~on /\ un.named)
           p(mon, size) == IF found(mon)
                             THEN ConfigureNewWindow(
                                    Requested(surface.pending, sizing, on, un.is_pending_maximized),
                                    size)
                             ELSE surface.pending
<1>1. phase = "Configured" /\ phase' = phase /\ scenario' = scenario /\ env' = env
  BY DEF RequestLate
<1>2. /\ SurfaceOk(surface) /\ UnmappedOk(un) /\ AskedOk(asked) /\ env \in Envs
      /\ AsAsked(surface, un, asked) /\ WherePicked(un, env, asked)
  BY <1>1 DEF ToplevelInv, UnmappedInv
<1>3. PICK mon \in Monitors, size \in DefaultSizes :
        /\ un' = [un EXCEPT !.output = TargetOutput(mon),
                            !.is_pending_maximized =
                              IF found(mon) /\ sizing = "maximized" THEN on ELSE @]
        /\ surface' = SendConfigure([surface EXCEPT !.pending = p(mon, size)], {}, {})
        /\ asked' = [asked EXCEPT ![sizing] = on,
                                  !.ignored = @ \/ ~found(mon),
                                  !.on = IF found(mon) THEN mon.on ELSE @,
                                  !.elsewhere = IF found(mon)
                                    THEN un.named /\ env.named \notin {NoOutput, mon.on}
                                    ELSE @]
  BY DEF RequestLate
<1>4. Chosen(mon)
  <2> DEFINE a == Prefer(un.output, Fallback)
  <2>1. \A x \in a : Chosen(x)
    BY <1>2, FallbackChosen, PreferChosen
  <2> HIDE DEF a
  <2>2. \A x \in Prefer(NamedOn(un.named), a) : Chosen(x)
    BY <1>2, <2>1, PreferChosen
  <2>3. \A x \in Prefer(IF o # NoOutput THEN o ELSE un.output, Fallback) : Chosen(x)
    BY <1>2, FallbackChosen, PreferChosen
  <2> QED
    BY <1>3, <2>2, <2>3 DEF a
<1>5. /\ StateOk(p(mon, size))
      /\ found(mon) =>
           /\ p(mon, size).fullscreen = IF sizing = "fullscreen" THEN on
                                        ELSE surface.pending.fullscreen
           /\ p(mon, size).maximized =
                IF sizing = "fullscreen"
                  THEN ~on /\ (surface.pending.maximized \/ un.is_pending_maximized)
                  ELSE on /\ ~surface.pending.fullscreen
  <2>1. StateOk(surface.pending) /\ un.is_pending_maximized \in BOOLEAN
    BY <1>2 DEF SurfaceOk, UnmappedOk
  <2> DEFINE q == Requested(surface.pending, sizing, on, un.is_pending_maximized)
  <2>2. /\ StateOk(q)
        /\ q.fullscreen = IF sizing = "fullscreen" THEN on ELSE surface.pending.fullscreen
        /\ q.maximized = IF sizing = "fullscreen"
                           THEN ~on /\ (surface.pending.maximized \/ un.is_pending_maximized)
                           ELSE on /\ ~surface.pending.fullscreen
    BY <2>1 DEF Requested, StateOk
  <2> HIDE DEF q
  <2>3. LET r == ConfigureNewWindow(q, size)
        IN StateOk(r) /\ r.fullscreen = q.fullscreen /\ r.maximized = q.maximized
    BY <2>2, ConfigureNewWindowFacts
  <2>4. p(mon, size) = IF found(mon) THEN ConfigureNewWindow(q, size) ELSE surface.pending
    BY DEF q
  <2> HIDE DEF p
  <2> QED
    BY <2>1, <2>2, <2>3, <2>4
<1> DEFINE pending == p(mon, size)
<1>6. pending = p(mon, size)
  OBVIOUS
<1> HIDE DEF pending, p
<1>7. SurfaceOk(surface') /\ surface'.pending = pending
  BY <1>2, <1>3, <1>5, <1>6, ConfiguredSurface
<1> HIDE DEF found
<1>8. /\ UnmappedOk(un') /\ un'.output = TargetOutput(mon) /\ un'.named = un.named
      /\ un'.is_pending_maximized = IF found(mon) /\ sizing = "maximized" THEN on
                                    ELSE un.is_pending_maximized
  BY <1>2, <1>3 DEF UnmappedOk
<1>9. /\ DOMAIN asked' = DOMAIN asked
      /\ asked'.fullscreen = IF sizing = "fullscreen" THEN on ELSE asked.fullscreen
      /\ asked'.maximized = IF sizing = "maximized" THEN on ELSE asked.maximized
      /\ asked'.ignored = (asked.ignored \/ ~found(mon))
      /\ asked'.on = IF found(mon) THEN mon.on ELSE asked.on
      /\ asked'.elsewhere = IF found(mon) THEN un.named /\ env.named \notin {NoOutput, mon.on}
                            ELSE asked.elsewhere
  BY <1>2, <1>3 DEF AskedOk
<1>10. AskedOk(asked')
  BY <1>2, <1>9 DEF AskedOk
<1>11. AsAsked(surface', un', asked')
  <2>1. /\ un.is_pending_maximized \in BOOLEAN /\ asked.fullscreen \in BOOLEAN
        /\ asked.maximized \in BOOLEAN
    BY <1>2 DEF UnmappedOk, AskedOk
  <2>2. sizing = "fullscreen" \/ sizing = "maximized"
    OBVIOUS
  <2> QED
    BY <1>2, <1>5, <1>6, <1>7, <1>8, <1>9, <2>1, <2>2 DEF AsAsked
<1>12. WherePicked(un', env', asked')
  <2>1. CASE found(mon)
    BY <1>1, <1>4, <1>8, <1>9, <2>1 DEF WherePicked, Chosen, TargetOutput
  <2>2. CASE ~found(mon) /\ asked.on = NoOutput
    BY <1>9, <2>2 DEF WherePicked
  <2>3. CASE ~found(mon) /\ asked.on # NoOutput
    <3>1. mon.on # NoOutput
      BY <1>2, <1>4, <2>3 DEF Chosen, WherePicked
    <3>2. ~on /\ un.named /\ env.named # mon.on
      BY <2>3, <3>1 DEF found, HasWorkspace
    <3>3. mon \in Prefer(env.named, Prefer(un.output, Fallback))
      BY <1>3, <3>2 DEF NamedOn
    <3>4. mon \in Prefer(un.output, Fallback)
      BY <3>2, <3>3 DEF Prefer
    <3>5. NoOutput \notin env.connected
      BY <1>2, ToplevelAssumption DEF Envs
    <3>6. TargetOutput(mon) = un.output
      <4>1. CASE un.output = asked.on
        <5>1. mon = [on |-> un.output, parent |-> FALSE]
          BY <1>2, <2>3, <3>4, <4>1 DEF Prefer, WherePicked
        <5> QED
          BY <5>1 DEF TargetOutput
      <4>2. CASE un.output = NoOutput /\ env.parent = asked.on
        <5>1. mon \in Fallback
          BY <3>4, <3>5, <4>2 DEF Prefer
        <5>2. mon = [on |-> env.parent, parent |-> TRUE]
          BY <2>3, <4>2, <5>1 DEF Fallback
        <5> QED
          BY <4>2, <5>2 DEF TargetOutput
      <4> QED
        BY <1>2, <2>3, <4>1, <4>2 DEF WherePicked
    <3> QED
      BY <1>1, <1>2, <1>8, <1>9, <2>3, <3>6 DEF WherePicked
  <2> QED
    BY <2>1, <2>2, <2>3
<1>13. UnmappedInv' /\ MappedInv'
  BY <1>1, <1>2, <1>7, <1>8, <1>10, <1>11, <1>12 DEF UnmappedInv, MappedInv
<1> QED
  BY <1>1, <1>13 DEF ToplevelInv

---------------------------------------------------------------------------
(* The theorems. *)

\* Every step keeps the invariant.
LEMMA ToplevelNext == ToplevelInv /\ [Next]_vars => ToplevelInv'
<1> SUFFICES ASSUME ToplevelInv, [Next]_vars PROVE ToplevelInv'
  OBVIOUS
<1>1. CASE NewToplevel \/ Unmap \/ Destroy
  BY <1>1, AfreshStep
<1>2. CASE EnvironmentChanges
  BY <1>2, EnvironmentStep
<1>3. CASE CommitUnmapped
  BY <1>3, CommitUnmappedStep
<1>4. CASE InitialConfigure
  BY <1>4, InitialConfigureStep
<1>5. CASE Map
  BY <1>5, MapStep
<1>6. CASE Commit
  BY <1>6, CommitStep
<1>7. CASE ClientRequest
  <2>1. PICK sizing \in {"fullscreen", "maximized"}, on \in BOOLEAN :
          \/ \E o \in IF sizing = "fullscreen" /\ on THEN Outputs \cup {NoOutput} ELSE {NoOutput} :
               RequestEarly(sizing, on, o) \/ RequestLate(sizing, on, o)
          \/ \E elsewhere \in {FALSE, sizing = "fullscreen" /\ on} :
               RequestMapped(sizing, on, elsewhere)
    BY <1>7 DEF ClientRequest
  <2>2. ASSUME NEW o, RequestEarly(sizing, on, o)
        PROVE  ToplevelInv'
    BY <2>2, RequestEarlyStep
  <2>3. ASSUME NEW o, RequestLate(sizing, on, o)
        PROVE  ToplevelInv'
    BY <2>3, RequestLateStep
  <2>4. ASSUME NEW elsewhere \in {FALSE, sizing = "fullscreen" /\ on},
               RequestMapped(sizing, on, elsewhere)
        PROVE  ToplevelInv'
    <3>1. elsewhere \in BOOLEAN /\ (elsewhere => on)
      OBVIOUS
    <3> QED
      BY <2>4, <3>1, RequestMappedStep
  <2> QED
    BY <2>1, <2>2, <2>3, <2>4
<1>8. CASE ToggleFullscreen \/ ToggleMaximized \/ ToggleWindowed \/ ToggleFloating \/ MoveWindow
  BY <1>8, ToggleStep
<1>9. CASE Resize
  BY <1>9, ResizeStep
<1>10. CASE InteractiveResize
  BY <1>10, InteractiveResizeStep
<1>11. CASE Refresh
  BY <1>11, RefreshStep
<1>12. CASE UNCHANGED vars
  BY <1>12 DEF vars, ToplevelInv, UnmappedInv, MappedInv, Rushed, Window
<1> QED
  BY <1>1, <1>2, <1>3, <1>4, <1>5, <1>6, <1>7, <1>8, <1>9, <1>10, <1>11, <1>12 DEF Next

\* What a window was told last agrees with the space it is in, for any outputs, sizes and rules,
\* however requests of its client, actions of the user, refreshes and commits interleave: the
\* assertions verify_invariants makes of columns and floating windows.  The exception is a
\* window that floats while several requests fall between two refreshes.
THEOREM SpacesStayInAgreement ==
  Spec => [](~(scenario.floating /\ scenario.batched) => SpacesAgree)
<1>1. ToplevelInv => (~(scenario.floating /\ scenario.batched) => SpacesAgree)
  <2>1. Window.t = tile
    BY DEF Window
  <2> QED
    BY <2>1 DEF ToplevelInv, MappedInv, Rushed, Good, Agrees, SpacesAgree
<1> QED
  BY <1>1, ToplevelInit, ToplevelNext, PTL DEF Spec

\* A window opens as fullscreen and as maximized as its client and the rules had it, and on the
\* output its sizes were picked for, over any requests before and after the initial configure
\* and any changes of outputs, workspaces and parents.
THEOREM WindowsOpenAsConfigured == Spec => OpensAsConfigured
<1> DEFINE A == phase = "Configured" /\ phase' = "Mapped" =>
                  /\ asked.ignored \/ (/\ tile'.fullscreen = asked.fullscreen
                                       /\ tile'.maximized = asked.maximized)
                  /\ asked.on = NoOutput \/ asked.elsewhere \/ MapTargets = {asked.on}
<1>1. ToplevelInv /\ [Next]_vars => [A]_vars
  <2> SUFFICES ASSUME ToplevelInv, [Next]_vars, phase = "Configured", phase' = "Mapped"
               PROVE  A
    BY DEF A
  <2>1. Map
    <3>1. ~UNCHANGED vars
      BY DEF vars
    <3> QED
      BY <3>1 DEF Next, NewToplevel, EnvironmentChanges, CommitUnmapped, InitialConfigure, Commit,
         Unmap, Destroy, ClientRequest, RequestEarly, RequestLate, RequestMapped, ToggleFullscreen,
         ToggleMaximized, ToggleWindowed, ToggleFloating, MoveWindow, Resize, InteractiveResize,
         Refresh, Act
  <2>2. /\ SurfaceOk(surface) /\ UnmappedOk(un) /\ AskedOk(asked) /\ env \in Envs
        /\ AsAsked(surface, un, asked) /\ WherePicked(un, env, asked)
    BY DEF ToplevelInv, UnmappedInv
  <2>3. PICK size \in Sizes, floating \in {FALSE, scenario.floating},
             k \in 1 .. Len(surface.sent) :
               Becomes(Opened(CommitTo(surface, k), size, floating, un.is_pending_maximized))
    BY <2>1 DEF Map
  <2> DEFINE s == CommitTo(surface, k)
             r == Opened(s, size, floating, un.is_pending_maximized)
  <2>4. SurfaceOk(s) /\ s.pending = surface.pending
    <3>1. k \in 0 .. Len(surface.sent)
      OBVIOUS
    <3> QED
      BY <2>2, <3>1, CommitToFacts
  <2>5. floating \in BOOLEAN /\ un.is_pending_maximized \in BOOLEAN
    BY <2>2 DEF ToplevelInv, ScenarioType, UnmappedOk
  <2>6. tile' = r.t
    BY <2>3 DEF Becomes
  <2> HIDE DEF s
  <2>7. /\ r.t.fullscreen = s.pending.fullscreen
        /\ r.t.maximized = IF s.pending.fullscreen THEN un.is_pending_maximized
                                                   ELSE s.pending.maximized
    BY <2>4, <2>5, OpenedFacts
  <2> HIDE DEF r
  <2>8. asked.fullscreen \in BOOLEAN /\ asked.maximized \in BOOLEAN
    BY <2>2 DEF AskedOk
  <2>9. asked.ignored \/ (tile'.fullscreen = asked.fullscreen /\ tile'.maximized = asked.maximized)
    BY <2>2, <2>4, <2>6, <2>7, <2>8 DEF AsAsked
  <2>10. asked.on = NoOutput \/ asked.elsewhere \/ MapTargets = {asked.on}
    <3>1. NoOutput \notin env.connected
      BY <2>2, ToplevelAssumption DEF Envs
    <3> QED
      BY <2>2, <3>1 DEF WherePicked, MapTargets
  <2> QED
    BY <2>9, <2>10
<1>2. OpensAsConfigured <=> [][A]_vars
  BY DEF OpensAsConfigured
<1> QED
  BY <1>1, <1>2, ToplevelInit, ToplevelNext, PTL DEF Spec

---------------------------------------------------------------------------
(* What is outstanding. *)

Shaped(w) ==
  /\ DOMAIN w = {"s", "m", "t"} /\ DOMAIN w.s = {"pending", "sent", "committed"}
  /\ DOMAIN w.s.pending = {"size", "fullscreen", "maximized", "resizing"}
  /\ IsSeq(w.s.sent)
  /\ DOMAIN w.m = {"needs_configure", "once", "once_at", "resize", "resize_at", "is_windowed",
                   "pending_windowed", "is_maximized", "pending_maximized", "geometry"}
  /\ w.m.needs_configure \in BOOLEAN
  /\ DOMAIN w.t = {"floating", "fullscreen", "maximized", "restore_to_floating", "floating_size",
                   "size", "resizing"}
  /\ w.t.resizing \in BOOLEAN

\* What the layout may do to a window between two refreshes: r is w after that.
Asks(w, r) ==
  /\ Shaped(r) /\ r.s.sent = w.s.sent /\ r.s.committed = w.s.committed
  /\ w.m.needs_configure => r.m.needs_configure
  /\ \/ r.m.once # "WaitingForCommit"
     \/ r.m.once = w.m.once /\ r.m.once_at = w.m.once_at
     \/ w.s.sent # <<>> /\ r.m.once_at = Len(w.s.sent)
  /\ \/ r.m.resize = "None"
     \/ r.m.resize = w.m.resize /\ r.m.resize_at = w.m.resize_at
  /\ r.m.is_windowed = w.m.is_windowed /\ r.m.is_maximized = w.m.is_maximized

\* The same without fullscreen becoming windowed.
Requests(w, r) == Asks(w, r) /\ (~w.m.pending_windowed => ~r.m.pending_windowed)

\* One after the other.
LEMMA AskedTwice ==
  ASSUME NEW w, NEW v, NEW r, Asks(w, v)
  PROVE  /\ Asks(v, r) => Asks(w, r)
         /\ Requests(w, v) /\ Requests(v, r) => Requests(w, r)
<1>1. ASSUME Asks(v, r) PROVE Asks(w, r)
  <2>1. \/ r.m.once # "WaitingForCommit"
        \/ r.m.once = w.m.once /\ r.m.once_at = w.m.once_at
        \/ w.s.sent # <<>> /\ r.m.once_at = Len(w.s.sent)
    BY <1>1 DEF Asks
  <2> QED
    BY <1>1, <2>1 DEF Asks
<1> QED
  BY <1>1 DEF Requests

\* Nothing happens, or only its place changes.
LEMMA PlacedAsks ==
  ASSUME NEW w, Shaped(w), NEW r, DOMAIN r = {"s", "m", "t"}, r.s = w.s, r.m = w.m,
         DOMAIN r.t = DOMAIN w.t, r.t.resizing \in BOOLEAN
  PROVE  Requests(w, r)
<1>1. Shaped(r)
  BY DEF Shaped
<1> QED
  BY <1>1 DEF Asks, Requests, Shaped

\* request_size
LEMMA RequestSizeAsks ==
  ASSUME NEW w, Shaped(w), NEW size, NEW mode
  PROVE  LET r == RequestSize(w, size, mode)
         IN /\ Requests(w, r) /\ r.t = w.t
            /\ ~r.m.needs_configure => w.m.is_maximized = (mode = "Maximized")
<1> DEFINE r == RequestSize(w, size, mode)
           windowed == w.m.pending_windowed /\ mode # "Fullscreen"
           fullscreen == mode = "Fullscreen" \/ windowed
           maximized == mode = "Maximized"
           owed == \/ w.m.needs_configure
                   \/ mode = "Fullscreen" /\ w.m.is_windowed
                   \/ w.m.is_maximized # maximized
           told == [w.s.pending EXCEPT !.size = size, !.fullscreen = fullscreen,
                                       !.maximized = maximized /\ ~fullscreen]
<1>1. r = [w EXCEPT !.m.pending_windowed = windowed, !.m.pending_maximized = maximized,
                    !.m.needs_configure = owed, !.m.once = "None", !.m.once_at = 0,
                    !.s.pending = told]
  BY DEF RequestSize, Shaped
<1>2. DOMAIN told = DOMAIN w.s.pending
  OBVIOUS
<1>8. owed \in BOOLEAN
  OBVIOUS
<1> HIDE DEF r, windowed, owed, told, maximized
<1>3. /\ DOMAIN r = {"s", "m", "t"} /\ r.t = w.t
      /\ DOMAIN r.s = DOMAIN w.s /\ r.s.sent = w.s.sent /\ r.s.committed = w.s.committed
      /\ r.s.pending = told
  BY <1>1 DEF Shaped
<1>7. /\ DOMAIN r.m = DOMAIN w.m /\ r.m.once = "None"
      /\ r.m.resize = w.m.resize /\ r.m.resize_at = w.m.resize_at
      /\ r.m.is_windowed = w.m.is_windowed /\ r.m.is_maximized = w.m.is_maximized
      /\ r.m.pending_windowed = windowed /\ r.m.needs_configure = owed
  BY <1>1 DEF Shaped
<1>5. Shaped(r)
  BY <1>2, <1>3, <1>7, <1>8 DEF Shaped
<1>6. Requests(w, r)
  BY <1>3, <1>5, <1>7 DEF Requests, Asks, windowed, owed
<1> QED
  BY <1>3, <1>6, <1>7 DEF r, owed, maximized

\* update_tile_sizes
LEMMA UpdateTileSizesAsks ==
  ASSUME NEW w, Shaped(w)
  PROVE  LET r == UpdateTileSizes(w)
         IN /\ Requests(w, r) /\ r.t = w.t
            /\ ~r.m.needs_configure => w.m.is_maximized = (ColumnMode(w.t) = "Maximized")
BY RequestSizeAsks DEF UpdateTileSizes

\* request_size_once
LEMMA RequestSizeOnceAsks ==
  ASSUME NEW w, Shaped(w), NEW size
  PROVE  LET r == RequestSizeOnce(w, size)
         IN Requests(w, r) /\ r.t = w.t /\ (~r.m.needs_configure => ~w.m.is_maximized)
<1> DEFINE r == RequestSizeOnce(w, size)
           v == [w EXCEPT !.m.pending_maximized = FALSE,
                          !.m.needs_configure = @ \/ w.m.is_maximized]
           known == [v EXCEPT !.m.once = "WaitingForCommit", !.m.once_at = Len(w.s.sent)]
           told == [w.s.pending EXCEPT
                      !.size = size, !.maximized = FALSE,
                      !.fullscreen = w.s.pending.fullscreen /\ w.m.pending_windowed]
           new == [v EXCEPT !.m.once = "WaitingForConfigure", !.m.once_at = 0,
                            !.s.pending = told]
<1>1. /\ DOMAIN v = {"s", "m", "t"} /\ v.t = w.t /\ v.s = w.s /\ DOMAIN v.m = DOMAIN w.m
      /\ v.m.needs_configure = (w.m.needs_configure \/ w.m.is_maximized)
      /\ v.m.resize = w.m.resize /\ v.m.resize_at = w.m.resize_at
      /\ v.m.is_windowed = w.m.is_windowed /\ v.m.is_maximized = w.m.is_maximized
      /\ v.m.pending_windowed = w.m.pending_windowed
  BY DEF Shaped
<1>2. (r = known /\ w.s.sent # <<>>) \/ r = new
  <2>1. new = [v EXCEPT !.m.once = "WaitingForConfigure", !.m.once_at = 0,
                        !.s.pending = [@ EXCEPT
                          !.size = size, !.maximized = FALSE,
                          !.fullscreen = w.s.pending.fullscreen /\ w.m.pending_windowed]]
    BY <1>1 DEF Shaped
  <2> QED
    BY <2>1 DEF RequestSizeOnce
<1>3. v.m.needs_configure \in BOOLEAN
  BY <1>1
<1> HIDE DEF v
<1>4. DOMAIN told = DOMAIN w.s.pending
  OBVIOUS
<1> HIDE DEF told
<1>5. /\ DOMAIN known = {"s", "m", "t"} /\ known.t = w.t /\ known.s = w.s
      /\ DOMAIN known.m = DOMAIN w.m /\ known.m.once_at = Len(w.s.sent)
      /\ \A f \in DOMAIN w.m \ {"once", "once_at"} : known.m[f] = v.m[f]
  BY <1>1 DEF Shaped
<1>6. /\ DOMAIN new = {"s", "m", "t"} /\ new.t = w.t
      /\ DOMAIN new.s = DOMAIN w.s /\ new.s.sent = w.s.sent
      /\ new.s.committed = w.s.committed /\ new.s.pending = told
      /\ DOMAIN new.m = DOMAIN w.m /\ new.m.once = "WaitingForConfigure"
      /\ \A f \in DOMAIN w.m \ {"once", "once_at"} : new.m[f] = v.m[f]
  BY <1>1 DEF Shaped
<1> HIDE DEF known, new, r
<1>7. \A f \in DOMAIN w.m \ {"once", "once_at"} : r.m[f] = v.m[f]
  BY <1>2, <1>5, <1>6
<1>8. /\ r.m.needs_configure = v.m.needs_configure /\ r.m.resize = v.m.resize
      /\ r.m.resize_at = v.m.resize_at /\ r.m.is_windowed = v.m.is_windowed
      /\ r.m.is_maximized = v.m.is_maximized /\ r.m.pending_windowed = v.m.pending_windowed
  BY <1>7 DEF Shaped
<1>9. Shaped(r) /\ r.t = w.t
  BY <1>2, <1>3, <1>4, <1>5, <1>6, <1>8 DEF Shaped
<1>10. Requests(w, r)
  BY <1>1, <1>2, <1>5, <1>6, <1>8, <1>9 DEF Requests, Asks
<1> QED
  BY <1>1, <1>8, <1>9, <1>10 DEF r

\* request_windowed_fullscreen
LEMMA RequestWindowedAsks ==
  ASSUME NEW w, Shaped(w), NEW value
  PROVE  LET r == RequestWindowedFullscreen(w, value)
         IN Asks(w, r) /\ (~value => Requests(w, r))
<1> DEFINE r == RequestWindowedFullscreen(w, value)
           told == [w.s.pending EXCEPT
                      !.fullscreen = value,
                      !.maximized = ~value /\ (w.s.pending.maximized \/ w.m.pending_maximized)]
           new == [w EXCEPT !.m.pending_windowed = value, !.m.needs_configure = TRUE,
                            !.s.pending = told]
<1>1. Requests(w, w)
  BY PlacedAsks DEF Shaped
<1>2. r = w \/ r = new
  BY DEF RequestWindowedFullscreen, Shaped
<1>3. DOMAIN told = DOMAIN w.s.pending
  OBVIOUS
<1> HIDE DEF told
<1>4. /\ DOMAIN new = {"s", "m", "t"} /\ new.t = w.t
      /\ DOMAIN new.s = DOMAIN w.s /\ new.s.sent = w.s.sent
      /\ new.s.committed = w.s.committed /\ new.s.pending = told
      /\ DOMAIN new.m = DOMAIN w.m /\ new.m.needs_configure = TRUE
      /\ new.m.pending_windowed = value
      /\ new.m.once = w.m.once /\ new.m.once_at = w.m.once_at
      /\ new.m.resize = w.m.resize /\ new.m.resize_at = w.m.resize_at
      /\ new.m.is_windowed = w.m.is_windowed /\ new.m.is_maximized = w.m.is_maximized
  BY DEF Shaped
<1> HIDE DEF new, r
<1>5. Shaped(new)
  BY <1>3, <1>4 DEF Shaped
<1>6. Asks(w, new) /\ (~value => Requests(w, new))
  BY <1>4, <1>5 DEF Requests, Asks
<1> QED
  BY <1>1, <1>2, <1>6 DEF Requests, r

\* cancel_resize_for_column
LEMMA CancelResizeAsks ==
  ASSUME NEW w, Shaped(w)
  PROVE  Requests(w, CancelResize(w))
<1> DEFINE r == CancelResize(w)
<1>1. /\ DOMAIN r = {"s", "m", "t"}
      /\ DOMAIN r.s = DOMAIN w.s /\ r.s.sent = w.s.sent /\ r.s.committed = w.s.committed
      /\ DOMAIN r.s.pending = DOMAIN w.s.pending
      /\ DOMAIN r.t = DOMAIN w.t /\ r.t.resizing = FALSE
  BY DEF CancelResize, Shaped
<1>2. /\ DOMAIN r.m = DOMAIN w.m /\ r.m.needs_configure = w.m.needs_configure
      /\ r.m.once = w.m.once /\ r.m.once_at = w.m.once_at /\ r.m.resize = "None"
      /\ r.m.is_windowed = w.m.is_windowed /\ r.m.is_maximized = w.m.is_maximized
      /\ r.m.pending_windowed = w.m.pending_windowed
  BY DEF CancelResize, Shaped
<1> HIDE DEF r
<1>3. Shaped(r)
  BY <1>1, <1>2 DEF Shaped
<1> QED
  BY <1>1, <1>2, <1>3 DEF Requests, Asks, r

\* The tile of a window with one of its two modes, or what to restore, set.
LEMMA SetTileAsks ==
  ASSUME NEW w, Shaped(w), NEW f \in {"fullscreen", "maximized", "restore_to_floating"}, NEW value
  PROVE  Requests(w, [w EXCEPT !.t[f] = value])
<1> DEFINE r == [w EXCEPT !.t[f] = value]
<1>1. DOMAIN r = {"s", "m", "t"} /\ r.s = w.s /\ r.m = w.m
  BY DEF Shaped
<1>2. DOMAIN r.t = DOMAIN w.t /\ r.t.resizing = w.t.resizing
  BY DEF Shaped
<1> HIDE DEF r
<1>3. r.t.resizing \in BOOLEAN
  BY <1>2 DEF Shaped
<1> QED
  BY <1>1, <1>2, <1>3, PlacedAsks DEF r

\* set_fullscreen and set_maximized of the scrolling space
LEMMA SetColumnAsks ==
  ASSUME NEW w, Shaped(w), NEW sizing \in {"fullscreen", "maximized"}, NEW on
  PROVE  Requests(w, SetColumn(w, sizing, on))
<1> DEFINE cancelled == CancelResize(w)
           placed == [cancelled EXCEPT !.t[sizing] = on]
<1>1. Requests(w, w)
  BY PlacedAsks DEF Shaped
<1>2. Requests(w, cancelled)
  BY CancelResizeAsks
<1>3. SetColumn(w, sizing, on) \in {w, UpdateTileSizes(placed)}
  BY DEF SetColumn
<1> HIDE DEF cancelled
<1>4. Requests(cancelled, placed)
  <2>1. Shaped(cancelled) /\ sizing \in {"fullscreen", "maximized", "restore_to_floating"}
    BY <1>2 DEF Requests, Asks
  <2> QED
    BY <2>1, SetTileAsks
<1> HIDE DEF placed
<1>5. Requests(placed, UpdateTileSizes(placed))
  BY <1>4, UpdateTileSizesAsks DEF Requests, Asks
<1>6. Requests(w, placed)
  BY <1>2, <1>4, AskedTwice DEF Requests
<1>7. Requests(w, UpdateTileSizes(placed))
  BY <1>5, <1>6, AskedTwice DEF Requests
<1> QED
  BY <1>1, <1>3, <1>7

\* A new column: the window is first asked for a normal size, so that a configure is owed if
\* it was maximized, or is to be.
LEMMA IntoColumnAsks ==
  ASSUME NEW w, Shaped(w)
  PROVE  LET r == IntoColumn(w)
         IN /\ Requests(w, r)
            /\ ~r.m.needs_configure =>
                 w.m.is_maximized = FALSE /\ PendingSizingMode(w) # "Maximized"
<1> DEFINE bare == [w EXCEPT !.t.floating = FALSE, !.t.fullscreen = FALSE, !.t.maximized = FALSE]
           normal == UpdateTileSizes(bare)
           full == [normal EXCEPT !.t.fullscreen = TRUE]
           max == [normal EXCEPT !.t.maximized = TRUE]
           r == IntoColumn(w)
<1>1. PendingSizingMode(w) \in Modes
  BY DEF PendingSizingMode, SizingModeOf, Modes
<1>2. r = IF PendingSizingMode(w) = "Fullscreen" THEN UpdateTileSizes(full)
          ELSE IF PendingSizingMode(w) = "Maximized" THEN UpdateTileSizes(max)
          ELSE normal
  BY <1>1 DEF IntoColumn, Modes
<1>3. /\ DOMAIN bare = {"s", "m", "t"} /\ bare.s = w.s /\ bare.m = w.m
      /\ DOMAIN bare.t = DOMAIN w.t /\ bare.t.resizing = w.t.resizing
      /\ bare.t.fullscreen = FALSE /\ bare.t.maximized = FALSE
  BY DEF Shaped
<1> HIDE DEF bare, r
<1>4. Requests(w, bare)
  <2>1. bare.t.resizing \in BOOLEAN
    BY <1>3 DEF Shaped
  <2> QED
    BY <1>3, <2>1, PlacedAsks
<1>5. ColumnMode(bare.t) = "Normal"
  BY <1>3 DEF ColumnMode, SizingModeOf
<1>6. /\ Requests(bare, normal) /\ normal.t = bare.t
      /\ ~normal.m.needs_configure => bare.m.is_maximized = FALSE
  BY <1>4, <1>5, UpdateTileSizesAsks DEF Requests, Asks
<1> HIDE DEF normal
<1>7. Requests(w, normal)
  BY <1>4, <1>6, AskedTwice DEF Requests
<1>8. DOMAIN normal = {"s", "m", "t"} /\ DOMAIN normal.t = DOMAIN w.t
  BY <1>7 DEF Requests, Asks, Shaped
<1>9. /\ full.t.fullscreen = TRUE /\ max.t.fullscreen = FALSE /\ max.t.maximized = TRUE
      /\ full.m = normal.m /\ max.m = normal.m
  BY <1>3, <1>6, <1>8 DEF Shaped
<1>10. Requests(normal, full) /\ Requests(normal, max)
  <2>1. Shaped(normal)
    BY <1>7 DEF Requests, Asks
  <2>2. \A f \in {"fullscreen", "maximized", "restore_to_floating"} : \A value :
          Requests(normal, [normal EXCEPT !.t[f] = value])
    BY <2>1, SetTileAsks
  <2>3. "fullscreen" \in {"fullscreen", "maximized", "restore_to_floating"}
        /\ "maximized" \in {"fullscreen", "maximized", "restore_to_floating"}
    OBVIOUS
  <2>4. /\ Requests(normal, [normal EXCEPT !.t["fullscreen"] = TRUE])
        /\ Requests(normal, [normal EXCEPT !.t["maximized"] = TRUE])
    BY <2>2, <2>3
  <2> QED
    BY <2>4
<1> HIDE DEF full, max
<1>11. ColumnMode(full.t) = "Fullscreen" /\ ColumnMode(max.t) = "Maximized"
  BY <1>9 DEF ColumnMode, SizingModeOf
<1>12. ASSUME NEW v \in {full, max}
       PROVE  /\ Requests(w, UpdateTileSizes(v))
              /\ ~UpdateTileSizes(v).m.needs_configure =>
                   ~normal.m.needs_configure /\ normal.m.is_maximized = (v = max)
  <2>1. Requests(normal, v) /\ v.m = normal.m
    BY <1>9, <1>10
  <2>2. /\ Requests(v, UpdateTileSizes(v))
        /\ ~UpdateTileSizes(v).m.needs_configure => v.m.is_maximized = (ColumnMode(v.t) = "Maximized")
    BY <2>1, UpdateTileSizesAsks DEF Requests, Asks
  <2>3. (ColumnMode(v.t) = "Maximized") = (v = max)
    BY <1>11
  <2>4. Requests(w, v)
    BY <1>7, <2>1, AskedTwice DEF Requests
  <2>5. Requests(w, UpdateTileSizes(v))
    BY <2>2, <2>4, AskedTwice DEF Requests
  <2> QED
    BY <2>1, <2>2, <2>3, <2>5 DEF Requests, Asks
<1>13. full # max
  BY <1>11
<1>14. bare.m.is_maximized = w.m.is_maximized /\ normal.m.is_maximized = w.m.is_maximized
  BY <1>4, <1>7 DEF Requests, Asks
<1>15. Requests(w, r)
  BY <1>2, <1>7, <1>12
<1>16. ASSUME ~r.m.needs_configure
       PROVE  w.m.is_maximized = FALSE /\ PendingSizingMode(w) # "Maximized"
  BY <1>1, <1>2, <1>6, <1>12, <1>13, <1>14, <1>16 DEF Modes
<1> QED
  BY <1>15, <1>16 DEF r

\* FloatingSpace::remove_tile
LEMMA OutOfFloatingAsks ==
  ASSUME NEW w, Shaped(w)
  PROVE  Requests(w, OutOfFloating(w))
<1> DEFINE r == OutOfFloating(w)
<1>1. DOMAIN r = {"s", "m", "t"} /\ r.s = w.s /\ r.m = w.m
  BY DEF OutOfFloating, Shaped
<1>2. DOMAIN r.t = DOMAIN w.t /\ r.t.resizing = FALSE
  BY DEF OutOfFloating, Shaped
<1> HIDE DEF r
<1> QED
  BY <1>1, <1>2, PlacedAsks DEF r

\* FloatingSpace::add_tile
LEMMA IntoFloatingAsks ==
  ASSUME NEW w, Shaped(w)
  PROVE  LET r == IntoFloating(w)
         IN Requests(w, r) /\ (~r.m.needs_configure => ~w.m.is_maximized)
<1> DEFINE r == IntoFloating(w)
           placed == [w EXCEPT !.t.floating = TRUE, !.t.fullscreen = FALSE,
                               !.t.maximized = FALSE, !.t.resizing = FALSE]
           size == IF w.t.floating_size # NoSize \/ PendingSizingMode(w) # "Normal"
                     THEN OrZero(w.t.floating_size) ELSE OrZero(ExpectedSize(w))
<1>1. r = RequestSizeOnce(placed, size)
  BY DEF IntoFloating
<1>2. /\ DOMAIN placed = {"s", "m", "t"} /\ placed.s = w.s /\ placed.m = w.m
      /\ DOMAIN placed.t = DOMAIN w.t /\ placed.t.resizing = FALSE
  BY DEF Shaped
<1> HIDE DEF placed, size, r
<1>3. Requests(w, placed)
  BY <1>2, PlacedAsks
<1>4. Requests(placed, r) /\ (~r.m.needs_configure => ~placed.m.is_maximized)
  BY <1>1, <1>3, RequestSizeOnceAsks DEF Requests, Asks
<1>5. Requests(w, r)
  BY <1>3, <1>4, AskedTwice DEF Requests
<1> QED
  BY <1>2, <1>4, <1>5 DEF r

\* toggle_window_floating
LEMMA ToggleWindowFloatingAsks ==
  ASSUME NEW w, Shaped(w)
  PROVE  Requests(w, ToggleWindowFloating(w))
<1>1. Requests(w, OutOfFloating(w))
  BY OutOfFloatingAsks
<1>2. Requests(OutOfFloating(w), IntoColumn(OutOfFloating(w)))
  BY <1>1, IntoColumnAsks DEF Requests, Asks
<1>3. Requests(w, IntoColumn(OutOfFloating(w)))
  BY <1>1, <1>2, AskedTwice DEF Requests
<1> QED
  BY <1>3, IntoFloatingAsks DEF ToggleWindowFloating

\* set_fullscreen and set_maximized of the workspace
LEMMA SetSizingAsks ==
  ASSUME NEW w, Shaped(w), NEW sizing \in {"fullscreen", "maximized"}, NEW on
  PROVE  Requests(w, SetSizing(w, sizing, on))
<1> DEFINE tiled == IF w.t.floating THEN ToggleWindowFloating(w) ELSE w
           new == SetColumn(tiled, sizing, on)
           restored == [new EXCEPT !.t.restore_to_floating = w.t.floating]
<1>1. SetSizing(w, sizing, on) \in {w, ToggleWindowFloating(w), new, restored}
  BY DEF SetSizing
<1>2. Requests(w, w)
  BY PlacedAsks DEF Shaped
<1>3. Requests(w, ToggleWindowFloating(w))
  BY ToggleWindowFloatingAsks
<1>4. Requests(w, tiled)
  BY <1>2, <1>3
<1> HIDE DEF tiled
<1>5. Requests(tiled, new)
  BY <1>4, SetColumnAsks DEF Requests, Asks
<1> HIDE DEF new
<1>6. Requests(w, new)
  BY <1>4, <1>5, AskedTwice DEF Requests
<1>7. Requests(new, restored)
  <2>1. Shaped(new)
    BY <1>6 DEF Requests, Asks
  <2> DEFINE f == "restore_to_floating"
  <2>2. f \in {"fullscreen", "maximized", "restore_to_floating"}
    OBVIOUS
  <2>3. restored = [new EXCEPT !.t[f] = w.t.floating]
    OBVIOUS
  <2> HIDE DEF f, restored
  <2> QED
    BY <2>1, <2>2, <2>3, SetTileAsks
<1> HIDE DEF restored
<1>8. Requests(w, restored)
  BY <1>6, <1>7, AskedTwice DEF Requests
<1> QED
  BY <1>1, <1>2, <1>3, <1>6, <1>8

\* Layout::set_fullscreen
LEMMA SetFullscreenAsks ==
  ASSUME NEW w, Shaped(w), NEW on
  PROVE  Requests(w, SetFullscreen(w, on))
<1>1. Requests(w, RequestWindowedFullscreen(w, FALSE))
  BY RequestWindowedAsks
<1>2. Requests(w, SetSizing(w, "fullscreen", on))
  BY SetSizingAsks
<1> QED
  BY <1>1, <1>2 DEF SetFullscreen

\* Layout::toggle_windowed_fullscreen
LEMMA ToggleWindowedAsks ==
  ASSUME NEW w, Shaped(w)
  PROVE  Asks(w, ToggleWindowedFullscreen(w))
<1> DEFINE v == IF PendingSizingMode(w) = "Fullscreen" THEN SetSizing(w, "fullscreen", FALSE) ELSE w
<1>1. Requests(w, w)
  BY PlacedAsks DEF Shaped
<1>2. Requests(w, SetSizing(w, "fullscreen", FALSE))
  BY SetSizingAsks
<1>3. Requests(w, v)
  BY <1>1, <1>2
<1>4. ToggleWindowedFullscreen(w) = RequestWindowedFullscreen(v, ~v.m.pending_windowed)
  BY DEF ToggleWindowedFullscreen
<1> HIDE DEF v
<1>5. Asks(v, ToggleWindowedFullscreen(w))
  BY <1>3, <1>4, RequestWindowedAsks DEF Requests, Asks
<1> QED
  BY <1>3, <1>5, AskedTwice DEF Requests

\* Layout::move_to_output
LEMMA MoveToOutputAsks ==
  ASSUME NEW w, Shaped(w)
  PROVE  Requests(w, MoveToOutput(w))
<1> DEFINE tiled == [w EXCEPT !.t.resizing = FALSE]
           removed == IF w.t.floating THEN OutOfFloating(w) ELSE tiled
           added == [removed EXCEPT !.t.restore_to_floating = w.t.floating]
<1>1. /\ DOMAIN tiled = {"s", "m", "t"} /\ tiled.s = w.s /\ tiled.m = w.m
      /\ DOMAIN tiled.t = DOMAIN w.t /\ tiled.t.resizing = FALSE
  BY DEF Shaped
<1>2. MoveToOutput(w) \in {IntoFloating(added), IntoColumn(added)}
  BY DEF MoveToOutput
<1> HIDE DEF tiled
<1>3. Requests(w, tiled)
  BY <1>1, PlacedAsks
<1>4. Requests(w, removed)
  BY <1>3, OutOfFloatingAsks
<1> HIDE DEF removed
<1>5. Requests(removed, added)
  <2>1. Shaped(removed)
    BY <1>4 DEF Requests, Asks
  <2> DEFINE f == "restore_to_floating"
  <2>2. f \in {"fullscreen", "maximized", "restore_to_floating"}
    OBVIOUS
  <2>3. added = [removed EXCEPT !.t[f] = w.t.floating]
    OBVIOUS
  <2> HIDE DEF f, added
  <2> QED
    BY <2>1, <2>2, <2>3, SetTileAsks
<1> HIDE DEF added
<1>6. Requests(w, added)
  BY <1>4, <1>5, AskedTwice DEF Requests
<1>7. Requests(added, IntoFloating(added)) /\ Requests(added, IntoColumn(added))
  BY <1>6, IntoFloatingAsks, IntoColumnAsks DEF Requests, Asks
<1>8. Requests(w, IntoFloating(added)) /\ Requests(w, IntoColumn(added))
  BY <1>6, <1>7, AskedTwice DEF Requests
<1> QED
  BY <1>2, <1>8
---------------------------------------------------------------------------
(* What is filed under the serials. *)

\* Where nothing is filed, what is known already counts.
LEMMA NothingFiled ==
  ASSUME NEW c, NEW values, NEW default, \A i \in DOMAIN c : values[i] = {}
  PROVE  LastFiled(c, values, default) = default
BY DEF LastFiled

\* The last serial under which there is something.
LEMMA LastFiledFacts ==
  ASSUME NEW n \in Nat, NEW c, DOMAIN c = 1 .. n, NEW values, NEW default
  PROVE  /\ \A i \in 1 .. n : values[i] # {} /\ (\A j \in 1 .. n : i < j => values[j] = {})
              => LastFiled(c, values, default) = CHOOSE v \in values[i] : TRUE
         /\ \/ \A i \in 1 .. n : values[i] = {}
            \/ \E i \in 1 .. n : values[i] # {} /\ (\A j \in 1 .. n : i < j => values[j] = {})
<1> DEFINE at == {i \in DOMAIN c : values[i] # {}}
<1>1. at \in SUBSET Nat /\ at \subseteq 1 .. n
  OBVIOUS
<1>2. IsFiniteSet(at)
  BY <1>1, FS_Interval, FS_Subset
<1>3. ASSUME NEW i \in 1 .. n, values[i] # {}, \A j \in 1 .. n : i < j => values[j] = {}
      PROVE  LastFiled(c, values, default) = CHOOSE v \in values[i] : TRUE
  <2>1. i \in at /\ \A j \in at : j <= i
    BY <1>3
  <2> HIDE DEF at
  <2>2. Max(at) = i /\ at # {}
    BY <1>1, <2>1, LargestIs
  <2> QED
    BY <2>2 DEF LastFiled, at
<1>4. ASSUME at # {}
      PROVE  \E i \in 1 .. n : values[i] # {} /\ (\A j \in 1 .. n : i < j => values[j] = {})
  <2>1. Max(at) \in at /\ \A i \in at : i <= Max(at)
    <3> HIDE DEF at
    <3> QED
      BY <1>1, <1>2, <1>4, LargestFacts
  <2> DEFINE i == Max(at)
  <2>2. i \in 1 .. n /\ values[i] # {}
    BY <1>1, <2>1
  <2>3. \A j \in 1 .. n : i < j => values[j] = {}
    <3> SUFFICES ASSUME NEW j \in 1 .. n, i < j, values[j] # {} PROVE FALSE
      OBVIOUS
    <3>1. j \in at
      OBVIOUS
    <3> HIDE DEF at
    <3>2. j <= i
      BY <2>1, <3>1
    <3> HIDE DEF i
    <3> QED
      BY <2>2, <3>2
  <2> QED
    BY <2>2, <2>3
<1> QED
  BY <1>3, <1>4

\* A configure more.
LEMMA FiledOneMore ==
  ASSUME NEW q, IsSeq(q), NEW e, NEW default
  PROVE  LET r == Append(q, e)
         IN /\ IsSeq(r) /\ Len(r) = Len(q) + 1 /\ Last(r) = e /\ r # <<>> /\ Len(q) \in Nat
            /\ \A i \in DOMAIN r : r[i] = IF i = Len(r) THEN e ELSE q[i]
            /\ \A i \in DOMAIN r : i \in DOMAIN q \/ i = Len(r)
            /\ FiledMaximized(r, default)
                 = IF e.maximized = {} THEN FiledMaximized(q, default)
                   ELSE CHOOSE v \in e.maximized : TRUE
<1> DEFINE S == {q[i] : i \in DOMAIN q} \cup {e}
           r == Append(q, e)
           n == Len(q)
           V == [i \in DOMAIN q |-> q[i].maximized]
           W == [i \in DOMAIN r |-> r[i].maximized]
<1>1. q \in Seq(S) /\ e \in S
  BY DEF IsSeq
<1> HIDE DEF S
<1>2. /\ r \in Seq(S) /\ n \in Nat /\ Len(r) = n + 1 /\ DOMAIN q = 1 .. n /\ DOMAIN r = 1 .. n + 1
      /\ \A i \in 1 .. n : r[i] = q[i]
      /\ r[n + 1] = e
  BY <1>1
<1> HIDE DEF r, n
<1>3. IsSeq(r) /\ r # <<>> /\ Last(r) = e
  BY <1>2, SeqOfOwn DEF Last
<1>4. /\ \A i \in DOMAIN r : r[i] = IF i = Len(r) THEN e ELSE q[i]
      /\ \A i \in DOMAIN r : i \in DOMAIN q \/ i = Len(r)
  BY <1>2
<1>5. /\ \A i \in 1 .. n : V[i] = W[i]
      /\ W[n + 1] = e.maximized
      /\ n + 1 \in Nat /\ n + 1 \in 1 .. n + 1
  BY <1>2
<1> HIDE DEF V, W
<1>6. LastFiled(r, W, default) = IF e.maximized = {} THEN LastFiled(q, V, default)
                                 ELSE CHOOSE v \in e.maximized : TRUE
  <2>1. CASE e.maximized # {}
    <3>1. W[n + 1] # {} /\ \A j \in 1 .. n + 1 : n + 1 < j => W[j] = {}
      BY <1>2, <1>5, <2>1
    <3> QED
      BY <1>2, <1>5, <2>1, <3>1, LastFiledFacts
  <2>2. CASE e.maximized = {} /\ \A i \in 1 .. n : V[i] = {}
    <3>1. \A i \in 1 .. n + 1 : W[i] = {}
      BY <1>2, <1>5, <2>2
    <3>2. LastFiled(r, W, default) = default /\ LastFiled(q, V, default) = default
      BY <1>2, <2>2, <3>1, NothingFiled
    <3> QED
      BY <2>2, <3>2
  <2>3. CASE e.maximized = {} /\ ~\A i \in 1 .. n : V[i] = {}
    <3>1. PICK i \in 1 .. n : V[i] # {} /\ (\A j \in 1 .. n : i < j => V[j] = {})
      BY <1>2, <2>3, LastFiledFacts
    <3>2. /\ i \in 1 .. n + 1 /\ W[i] = V[i]
          /\ \A j \in 1 .. n + 1 : i < j => W[j] = {}
      BY <1>2, <1>5, <2>3, <3>1
    <3>3. LastFiled(q, V, default) = CHOOSE v \in V[i] : TRUE
      BY <1>2, <3>1, LastFiledFacts
    <3>4. LastFiled(r, W, default) = CHOOSE v \in W[i] : TRUE
      BY <1>2, <1>5, <3>1, <3>2, LastFiledFacts
    <3> QED
      BY <2>3, <3>2, <3>3, <3>4
  <2> QED
    BY <2>1, <2>2, <2>3
<1>7. FiledMaximized(r, default) = LastFiled(r, W, default)
      /\ FiledMaximized(q, default) = LastFiled(q, V, default)
  BY DEF FiledMaximized, V, W
<1> QED
  BY <1>2, <1>3, <1>4, <1>6, <1>7 DEF r, n

\* The first k configures are done with: what will be known once all are does not change.
LEMMA FiledInTwo ==
  ASSUME NEW q, IsSeq(q), NEW k \in 0 .. Len(q), NEW default
  PROVE  LET rest == SubSeq(q, k + 1, Len(q))
         IN /\ IsSeq(rest) /\ Len(rest) = Len(q) - k /\ Len(q) \in Nat
            /\ \A i \in 1 .. Len(q) - k : rest[i] = q[k + i]
            /\ FiledMaximized(rest, FiledMaximized(SubSeq(q, 1, k), default))
                 = FiledMaximized(q, default)
<1> DEFINE S == {q[i] : i \in DOMAIN q}
           n == Len(q)
           first == SubSeq(q, 1, k)
           rest == SubSeq(q, k + 1, n)
           V == [i \in DOMAIN q |-> q[i].maximized]
           A == [i \in DOMAIN first |-> first[i].maximized]
           B == [i \in DOMAIN rest |-> rest[i].maximized]
           known == LastFiled(first, A, default)
<1>1. q \in Seq(S)
  BY DEF IsSeq
<1> HIDE DEF S
<1>2. n \in Nat /\ DOMAIN q = 1 .. n /\ k \in Nat /\ n - k \in Nat /\ k \in 0 .. n
  BY <1>1
<1>3. /\ rest \in Seq(S) /\ DOMAIN rest = 1 .. n - k /\ Len(rest) = n - k
      /\ \A i \in 1 .. n - k : rest[i] = q[k + i]
  <2>1. /\ k + 1 \in 1 .. n + 1 /\ n - (k + 1) + 1 = n - k
        /\ \A i \in 1 .. n - k : k + 1 + i - 1 = k + i
    BY <1>2
  <2>2. rest = [i \in 1 .. n - k |-> q[k + i]]
    BY <1>1, <1>2, <2>1
  <2>3. \A i \in 1 .. n - k : k + i \in 1 .. n /\ q[k + i] \in S
    BY <1>1, <1>2
  <2> HIDE DEF rest
  <2>4. rest \in [1 .. n - k -> S]
    BY <2>2, <2>3
  <2>5. rest \in Seq(S)
    BY <1>2, <2>4
  <2> QED
    BY <1>2, <2>2, <2>5
<1>4. DOMAIN first = 1 .. k /\ \A i \in 1 .. k : first[i] = q[i]
  BY <1>1, <1>2
<1> HIDE DEF n, first, rest
<1>5. /\ \A i \in 1 .. k : A[i] = V[i] /\ i \in 1 .. n
      /\ \A i \in 1 .. n - k : B[i] = V[k + i] /\ k + i \in 1 .. n
  BY <1>2, <1>3, <1>4
<1> HIDE DEF A, B, V
<1>6. \A i \in 1 .. n : i \in 1 .. k \/ (i - k \in 1 .. n - k /\ i = k + (i - k))
  BY <1>2
<1>7. LastFiled(rest, B, known) = LastFiled(q, V, default)
  <2>1. CASE \E i \in 1 .. n - k : B[i] # {}
    <3>1. PICK i \in 1 .. n - k : B[i] # {} /\ (\A j \in 1 .. n - k : i < j => B[j] = {})
      BY <1>2, <1>3, <2>1, LastFiledFacts
    <3>2. LastFiled(rest, B, known) = CHOOSE v \in B[i] : TRUE
      BY <1>2, <1>3, <3>1, LastFiledFacts
    <3>3. \A j \in 1 .. n : k + i < j => V[j] = {}
      <4> TAKE j \in 1 .. n
      <4> HAVE k + i < j
      <4>1. j - k \in 1 .. n - k /\ i < j - k /\ k + (j - k) = j
        BY <1>2
      <4> QED
        BY <1>5, <3>1, <4>1
    <3> DEFINE m == k + i
    <3>4. m \in 1 .. n /\ V[m] # {} /\ V[m] = B[i] /\ \A j \in 1 .. n : m < j => V[j] = {}
      BY <1>5, <3>1, <3>3
    <3> HIDE DEF m
    <3>5. LastFiled(q, V, default) = CHOOSE v \in V[m] : TRUE
      BY <1>2, <3>4, LastFiledFacts
    <3> QED
      BY <3>2, <3>4, <3>5
  <2>2. CASE \A i \in 1 .. n - k : B[i] = {}
    <3>1. LastFiled(rest, B, known) = known
      BY <1>3, <2>2, NothingFiled
    <3>2. \A j \in 1 .. n : k < j => V[j] = {}
      <4> TAKE j \in 1 .. n
      <4> HAVE k < j
      <4>1. j - k \in 1 .. n - k /\ k + (j - k) = j
        BY <1>2
      <4> QED
        BY <1>5, <2>2, <4>1
    <3>3. CASE \A i \in 1 .. k : A[i] = {}
      <4>1. known = default
        BY <1>4, <3>3, NothingFiled
      <4>2. \A j \in 1 .. n : V[j] = {}
        BY <1>2, <1>5, <1>6, <3>2, <3>3
      <4> QED
        BY <1>2, <3>1, <4>1, <4>2, NothingFiled
    <3>4. CASE ~\A i \in 1 .. k : A[i] = {}
      <4>1. PICK i \in 1 .. k : A[i] # {} /\ (\A j \in 1 .. k : i < j => A[j] = {})
        BY <1>2, <1>4, <3>4, LastFiledFacts
      <4>2. known = CHOOSE v \in A[i] : TRUE
        BY <1>2, <1>4, <4>1, LastFiledFacts
      <4>3. \A j \in 1 .. n : i < j => V[j] = {}
        <5> TAKE j \in 1 .. n
        <5>1. j \in 1 .. k \/ k < j
          BY <1>2
        <5> QED
          BY <1>5, <3>2, <4>1, <5>1
      <4>4. i \in 1 .. n /\ V[i] # {} /\ V[i] = A[i]
        BY <1>5, <4>1
      <4>5. LastFiled(q, V, default) = CHOOSE v \in V[i] : TRUE
        BY <1>2, <4>3, <4>4, LastFiledFacts
      <4> QED
        BY <3>1, <4>2, <4>4, <4>5
    <3> QED
      BY <3>3, <3>4
  <2> QED
    BY <2>1, <2>2
<1>8. IsSeq(rest)
  BY <1>3, SeqOfOwn
<1>9. /\ FiledMaximized(first, default) = known
      /\ FiledMaximized(rest, known) = LastFiled(rest, B, known)
      /\ FiledMaximized(q, default) = LastFiled(q, V, default)
  BY DEF FiledMaximized, V, A, B, known
<1> QED
  BY <1>2, <1>3, <1>7, <1>8, <1>9 DEF n, first, rest

---------------------------------------------------------------------------
(* What is outstanding of a mapped window. *)

\* What waits for a commit waits for one of those to come; and the client knows that it is
\* being resized.
Answering(w) ==
  /\ Shaped(w)
  /\ w.m.once = "WaitingForCommit" => w.m.once_at \in 1 .. Len(w.s.sent)
  /\ w.m.resize \in {"None", "Ongoing", "WaitingForLastCommit"}
  /\ w.m.resize = "WaitingForLastCommit" => w.m.resize_at \in 1 .. Len(w.s.sent)
  /\ w.m.resize = "Ongoing" => Server(w.s).resizing = TRUE

\* After a refresh.
Refreshed(w) ==
  /\ w.m.needs_configure = FALSE
  /\ w.s.sent = <<>> => w.s.pending = w.s.committed
  /\ w.t.resizing <=> w.m.resize = "Ongoing"

\* A window that is never windowed fullscreen: once it has committed to all it was sent, it
\* will know whether it is maximized, unless it is owed a configure.
Filings(w) ==
  /\ w.m.pending_windowed = FALSE /\ w.m.is_windowed = FALSE
  /\ \A i \in DOMAIN w.s.sent : w.s.sent[i].windowed = {}
  /\ w.m.needs_configure = FALSE =>
       Server(w.s).maximized = FiledMaximized(w.s.sent, w.m.is_maximized)

\* What the layout does leaves both alone.
LEMMA AsksKeeps ==
  ASSUME NEW w, NEW r
  PROVE  /\ Answering(w) /\ Asks(w, r) => Answering(r)
         /\ Filings(w) /\ Requests(w, r) /\ r.m.pending_windowed \in BOOLEAN => Filings(r)
<1>1. Asks(w, r) => Server(r.s) = Server(w.s)
  BY DEF Asks, Server
<1>2. ASSUME Answering(w), Asks(w, r) PROVE Answering(r)
  <2>1. IsSeq(w.s.sent) /\ r.s.sent = w.s.sent /\ Len(w.s.sent) \in Nat
    BY <1>2 DEF Answering, Shaped, Asks, IsSeq
  <2>2. w.s.sent # <<>> => Len(w.s.sent) \in 1 .. Len(w.s.sent)
    BY <2>1 DEF IsSeq
  <2> QED
    BY <1>1, <1>2, <2>1, <2>2 DEF Answering, Asks
<1>3. ASSUME Filings(w), Requests(w, r), r.m.pending_windowed \in BOOLEAN PROVE Filings(r)
  <2>1. r.m.needs_configure = FALSE => w.m.needs_configure = FALSE \/ w.m.needs_configure \notin BOOLEAN
    BY <1>3 DEF Requests, Asks
  <2> QED
    BY <1>1, <1>3, <2>1 DEF Filings, Requests, Asks
<1> QED
  BY <1>2, <1>3

\* set_interactive_resize, before the refresh looks at what is pending
LEMMA ResizeNoted ==
  ASSUME NEW w, Answering(w)
  PROVE  LET v == SetInteractiveResize(w)
         IN /\ Shaped(v) /\ v.t = w.t /\ v.s.sent = w.s.sent /\ v.s.committed = w.s.committed
            /\ v.s.pending.resizing = w.t.resizing
            /\ v.s.pending.maximized = w.s.pending.maximized
            /\ \A f \in DOMAIN w.m \ {"resize"} : v.m[f] = w.m[f]
            /\ v.m.resize = IF w.t.resizing THEN "Ongoing"
                            ELSE IF w.m.resize = "Ongoing" THEN "WaitingForLastConfigure"
                            ELSE w.m.resize
<1> DEFINE resize == CASE w.t.resizing -> "Ongoing"
                       [] ~w.t.resizing /\ w.m.resize = "Ongoing" -> "WaitingForLastConfigure"
                       [] OTHER -> w.m.resize
           v == SetInteractiveResize(w)
<1>1. Shaped(w) /\ w.t.resizing \in BOOLEAN
  BY DEF Answering, Shaped
<1>2. v = [w EXCEPT !.s.pending.resizing = w.t.resizing, !.m.resize = resize]
  BY <1>1 DEF SetInteractiveResize, Shaped
<1>3. resize = IF w.t.resizing THEN "Ongoing"
               ELSE IF w.m.resize = "Ongoing" THEN "WaitingForLastConfigure" ELSE w.m.resize
  BY <1>1
<1> HIDE DEF v, resize
<1>4. /\ DOMAIN v = {"s", "m", "t"} /\ v.t = w.t
      /\ DOMAIN v.s = DOMAIN w.s /\ v.s.sent = w.s.sent /\ v.s.committed = w.s.committed
      /\ DOMAIN v.s.pending = DOMAIN w.s.pending
      /\ v.s.pending.resizing = w.t.resizing
      /\ v.s.pending.maximized = w.s.pending.maximized
  BY <1>1, <1>2 DEF Shaped
<1>5. /\ DOMAIN v.m = DOMAIN w.m /\ v.m.resize = resize
      /\ \A f \in DOMAIN w.m \ {"resize"} : v.m[f] = w.m[f]
  BY <1>1, <1>2 DEF Shaped
<1>6. v.m.needs_configure = w.m.needs_configure
  BY <1>1, <1>5 DEF Shaped
<1>7. Shaped(v)
  BY <1>1, <1>4, <1>5, <1>6 DEF Shaped
<1> QED
  BY <1>3, <1>4, <1>5, <1>7 DEF v

\* What a configure is sent with, if the window is one to refresh.
Noted(w, v) ==
  /\ Shaped(v) /\ v.s.sent = w.s.sent /\ v.s.committed = w.s.committed /\ v.t = w.t
  /\ v.s.pending.resizing = v.t.resizing
  /\ v.m.once = "WaitingForCommit" => v.m.once_at \in 1 .. Len(v.s.sent)
  /\ v.m.resize \in {"None", "Ongoing", "WaitingForLastConfigure", "WaitingForLastCommit"}
  /\ v.m.resize = "Ongoing" <=> v.t.resizing
  /\ v.m.resize = "WaitingForLastConfigure" => Server(v.s).resizing = TRUE
  /\ v.m.resize = "WaitingForLastCommit" => v.m.resize_at \in 1 .. Len(v.s.sent)
  /\ v.m.pending_maximized = w.m.pending_maximized
  /\ v.s.pending.maximized = w.s.pending.maximized
  /\ Filings(w) => Filings(v)

\* It is what set_interactive_resize leaves.
LEMMA NotedFacts ==
  ASSUME NEW w, Answering(w)
  PROVE  Noted(w, SetInteractiveResize(w))
<1> DEFINE v == SetInteractiveResize(w)
<1>1. /\ Shaped(v) /\ v.t = w.t /\ v.s.sent = w.s.sent /\ v.s.committed = w.s.committed
      /\ v.s.pending.resizing = w.t.resizing
      /\ v.s.pending.maximized = w.s.pending.maximized
      /\ \A f \in DOMAIN w.m \ {"resize"} : v.m[f] = w.m[f]
      /\ v.m.resize = IF w.t.resizing THEN "Ongoing"
                      ELSE IF w.m.resize = "Ongoing" THEN "WaitingForLastConfigure"
                      ELSE w.m.resize
  BY ResizeNoted
<1> HIDE DEF v
<1>2. /\ v.m.once = w.m.once /\ v.m.once_at = w.m.once_at /\ v.m.resize_at = w.m.resize_at
      /\ v.m.needs_configure = w.m.needs_configure
      /\ v.m.pending_maximized = w.m.pending_maximized /\ v.m.is_maximized = w.m.is_maximized
      /\ v.m.pending_windowed = w.m.pending_windowed /\ v.m.is_windowed = w.m.is_windowed
  BY <1>1 DEF Answering, Shaped
<1>3. Server(v.s) = Server(w.s)
  BY <1>1 DEF Server
<1>4. Filings(w) => Filings(v)
  BY <1>1, <1>2, <1>3 DEF Filings
<1>5. w.t.resizing \in BOOLEAN
  BY DEF Answering, Shaped
<1> QED
  BY <1>1, <1>2, <1>3, <1>4, <1>5 DEF Noted, Answering, v

\* What a refresh leaves.
Answered(w, r) ==
  /\ Answering(r) /\ Refreshed(r)
  /\ Filings(w) /\ w.m.pending_maximized = w.s.pending.maximized => Filings(r)

\* A configure that is throttled, or not needed.
LEMMA HeldBack ==
  ASSUME NEW w, NEW v, Noted(w, v), ConfigureIntent(v) \in {"NotNeeded", "Throttled"}
  PROVE  Answered(w, v)
<1>1. v.m.needs_configure \in BOOLEAN /\ v.t.resizing \in BOOLEAN
      /\ "size" \in DOMAIN v.s.pending /\ "resizing" \in DOMAIN v.s.pending
  BY DEF Noted, Shaped
<1> DEFINE same == [v.s.pending EXCEPT !.size = Server(v.s).size]
<1>2. /\ v.m.needs_configure = FALSE
      /\ \/ v.s.pending = Server(v.s)
         \/ same = Server(v.s) /\ v.s.committed.size # Server(v.s).size
  BY <1>1 DEF ConfigureIntent
<1>3. same.resizing = v.s.pending.resizing
  BY <1>1
<1> HIDE DEF same
<1>4. Server(v.s).resizing = v.t.resizing
  BY <1>2, <1>3 DEF Noted
<1>5. v.s.sent = <<>> => Server(v.s) = v.s.committed
  BY DEF Server
<1>6. v.s.sent = <<>> => v.s.pending = v.s.committed
  BY <1>2, <1>5
<1>7. v.m.resize # "WaitingForLastConfigure"
  BY <1>4 DEF Noted
<1>8. Answering(v)
  BY <1>1, <1>4, <1>7 DEF Answering, Noted
<1> QED
  BY <1>2, <1>6, <1>8 DEF Answered, Refreshed, Noted

\* send_pending_configure
LEMMA SendAnswers ==
  ASSUME NEW w, NEW v, Noted(w, v)
  PROVE  Answered(w, SendPendingConfigure(v))
<1> DEFINE r == SendPendingConfigure(v)
           own == v.m.once = "UseWindowSize"
           pending == [v.s.pending EXCEPT
                         !.size = IF own /\ ~v.m.needs_configure THEN Server(v.s).size ELSE @]
           state == [pending EXCEPT !.size = IF own THEN v.m.geometry ELSE @]
           serial == Len(v.s.sent) + 1
           told == [v.s EXCEPT !.pending = state]
           max == Filed(v.m.pending_maximized, FiledMaximized(v.s.sent, v.m.is_maximized))
           full == Filed(v.m.pending_windowed, FiledWindowed(v.s.sent, v.m.is_windowed))
<1>1. /\ DOMAIN pending = DOMAIN v.s.pending
      /\ pending.resizing = v.s.pending.resizing
      /\ pending.maximized = v.s.pending.maximized
  BY DEF Noted, Shaped
<1>2. /\ DOMAIN state = DOMAIN v.s.pending
      /\ state.resizing = v.s.pending.resizing
      /\ state.maximized = v.s.pending.maximized
  BY DEF Noted, Shaped
<1>3. IsSeq(v.s.sent) /\ v.m.needs_configure \in BOOLEAN /\ v.t.resizing \in BOOLEAN
  BY DEF Noted, Shaped
<1>4. CASE v.m.needs_configure \/ pending # Server(v.s)
  <2> DEFINE m == [v.m EXCEPT
                      !.needs_configure = FALSE,
                      !.resize = IF @ = "WaitingForLastConfigure" THEN "WaitingForLastCommit" ELSE @,
                      !.resize_at = IF v.m.resize = "WaitingForLastConfigure" THEN serial ELSE @,
                      !.once = IF @ = "WaitingForConfigure" THEN "WaitingForCommit" ELSE @,
                      !.once_at = IF v.m.once = "WaitingForConfigure" THEN serial ELSE @]
             e == [state |-> state, maximized |-> max, windowed |-> full]
  <2>1. r = [s |-> SendConfigure(told, max, full), m |-> m, t |-> v.t]
    BY <1>4 DEF SendPendingConfigure
  <2>2. /\ DOMAIN m = DOMAIN v.m /\ m.needs_configure = FALSE
        /\ m.resize = IF v.m.resize = "WaitingForLastConfigure" THEN "WaitingForLastCommit"
                      ELSE v.m.resize
        /\ m.resize_at = IF v.m.resize = "WaitingForLastConfigure" THEN serial ELSE v.m.resize_at
        /\ m.once = IF v.m.once = "WaitingForConfigure" THEN "WaitingForCommit" ELSE v.m.once
        /\ m.once_at = IF v.m.once = "WaitingForConfigure" THEN serial ELSE v.m.once_at
        /\ m.is_windowed = v.m.is_windowed /\ m.is_maximized = v.m.is_maximized
        /\ m.pending_windowed = v.m.pending_windowed
    <3> HIDE DEF serial
    <3> QED
      BY DEF Noted, Shaped
  <2> HIDE DEF m, max, full, state, pending
  <2>3. /\ DOMAIN told = DOMAIN v.s /\ told.pending = state /\ told.sent = v.s.sent
        /\ told.committed = v.s.committed
    BY DEF Noted, Shaped
  <2> HIDE DEF told
  <2>4. /\ DOMAIN r = {"s", "m", "t"} /\ r.t = v.t /\ r.m = m
        /\ DOMAIN r.s = DOMAIN v.s /\ r.s.pending = state /\ r.s.committed = v.s.committed
        /\ r.s.sent = Append(v.s.sent, e)
    <3> DEFINE new == SendConfigure(told, max, full)
    <3>1. /\ DOMAIN new = DOMAIN told /\ new.pending = told.pending
          /\ new.committed = told.committed
      BY <2>3 DEF SendConfigure, Noted, Shaped
    <3>2. new.sent = Append(told.sent, [state |-> told.pending, maximized |-> max, windowed |-> full])
      BY <2>3 DEF SendConfigure, Noted, Shaped
    <3> HIDE DEF new
    <3>3. DOMAIN r = {"s", "m", "t"} /\ r.s = new /\ r.t = v.t /\ r.m = m
      BY <2>1 DEF new
    <3> QED
      BY <2>3, <3>1, <3>2, <3>3
  <2>5. e.state = state /\ e.maximized = max /\ e.windowed = full
    OBVIOUS
  <2> HIDE DEF r, e
  <2>6. /\ IsSeq(r.s.sent) /\ Len(r.s.sent) = serial /\ Last(r.s.sent) = e /\ r.s.sent # <<>>
        /\ Len(v.s.sent) \in Nat
        /\ \A i \in DOMAIN r.s.sent : r.s.sent[i] = IF i = serial THEN e ELSE v.s.sent[i]
        /\ \A i \in DOMAIN r.s.sent : i \in DOMAIN v.s.sent \/ i = serial
        /\ FiledMaximized(r.s.sent, v.m.is_maximized)
             = IF max = {} THEN FiledMaximized(v.s.sent, v.m.is_maximized)
               ELSE CHOOSE x \in max : TRUE
    <3> DEFINE q == v.s.sent
               u == Append(q, e)
               known == v.m.is_maximized
    <3>1. IsSeq(q)
      BY <1>3
    <3> HIDE DEF q, known
    <3>2. /\ IsSeq(u) /\ Len(u) = Len(q) + 1 /\ Last(u) = e /\ u # <<>> /\ Len(q) \in Nat
          /\ \A i \in DOMAIN u : u[i] = IF i = Len(u) THEN e ELSE q[i]
          /\ \A i \in DOMAIN u : i \in DOMAIN q \/ i = Len(u)
          /\ FiledMaximized(u, known)
               = IF e.maximized = {} THEN FiledMaximized(q, known)
                 ELSE CHOOSE x \in e.maximized : TRUE
      BY <3>1, FiledOneMore
    <3>3. u = r.s.sent
      BY <2>4 DEF q
    <3> HIDE DEF u
    <3> QED
      BY <2>5, <3>2, <3>3 DEF q, known
  <2>7. Server(r.s) = state
    BY <2>5, <2>6 DEF Server
  <2>8. 1 .. Len(v.s.sent) \subseteq 1 .. serial /\ serial \in 1 .. serial
    BY <2>6
  <2> HIDE DEF serial
  <2>9. Shaped(r)
    BY <1>2, <2>2, <2>4, <2>6 DEF Shaped, Noted
  <2>10. Answering(r)
    BY <1>2, <1>3, <2>2, <2>4, <2>6, <2>7, <2>8, <2>9 DEF Answering, Noted
  <2>11. Refreshed(r)
    BY <1>3, <2>2, <2>4, <2>6 DEF Refreshed, Noted
  <2>12. ASSUME Filings(w), w.m.pending_maximized = w.s.pending.maximized
         PROVE  Filings(r)
    <3>1. Filings(v) /\ v.m.pending_maximized = v.s.pending.maximized
      BY <2>12 DEF Noted
    <3>2. FiledMaximized(r.s.sent, v.m.is_maximized) = v.m.pending_maximized
      BY <2>6 DEF max, Filed
    <3>3. FiledWindowed(v.s.sent, v.m.is_windowed) = FALSE
      BY <3>1, NothingFiled DEF FiledWindowed, Filings
    <3>4. full = {}
      BY <3>1, <3>3 DEF full, Filed, Filings
    <3>5. \A i \in DOMAIN r.s.sent : r.s.sent[i].windowed = {}
      BY <2>5, <2>6, <3>1, <3>4 DEF Filings
    <3> QED
      BY <1>2, <2>2, <2>4, <2>7, <3>1, <3>2, <3>5 DEF Filings
  <2> QED
    BY <2>10, <2>11, <2>12 DEF Answered, r
<1>5. CASE ~(v.m.needs_configure \/ pending # Server(v.s))
  <2>1. r = [v EXCEPT !.s.pending = pending,
                      !.m.resize = IF @ = "WaitingForLastConfigure" THEN "None" ELSE @]
    BY <1>5 DEF SendPendingConfigure
  <2> HIDE DEF pending, state, r
  <2>2. /\ DOMAIN r = {"s", "m", "t"} /\ r.t = v.t
        /\ DOMAIN r.s = DOMAIN v.s /\ r.s.pending = pending /\ r.s.sent = v.s.sent
        /\ r.s.committed = v.s.committed
    BY <2>1 DEF Noted, Shaped
  <2>3. /\ DOMAIN r.m = DOMAIN v.m
        /\ r.m.resize = IF v.m.resize = "WaitingForLastConfigure" THEN "None" ELSE v.m.resize
        /\ \A f \in DOMAIN v.m \ {"resize"} : r.m[f] = v.m[f]
    BY <2>1 DEF Noted, Shaped
  <2>4. /\ r.m.once = v.m.once /\ r.m.once_at = v.m.once_at /\ r.m.resize_at = v.m.resize_at
        /\ r.m.needs_configure = v.m.needs_configure /\ r.m.is_maximized = v.m.is_maximized
        /\ r.m.pending_windowed = v.m.pending_windowed /\ r.m.is_windowed = v.m.is_windowed
    BY <2>3 DEF Noted, Shaped
  <2>5. Server(r.s) = Server(v.s) /\ (r.s.sent = <<>> => Server(r.s) = r.s.committed)
    BY <2>2 DEF Server
  <2>6. r.s.pending = Server(r.s) /\ Server(r.s).resizing = v.t.resizing
    BY <1>1, <1>5, <2>2, <2>5 DEF Noted
  <2>7. Shaped(r)
    BY <1>1, <1>3, <2>2, <2>3, <2>4 DEF Shaped, Noted
  <2>8. Answering(r)
    BY <1>3, <2>2, <2>3, <2>4, <2>6, <2>7 DEF Answering, Noted
  <2>9. Refreshed(r)
    BY <1>3, <1>5, <2>2, <2>3, <2>4, <2>5, <2>6 DEF Refreshed, Noted
  <2>10. Filings(v) => Filings(r)
    BY <2>2, <2>4, <2>5 DEF Filings
  <2> QED
    BY <2>8, <2>9, <2>10 DEF Answered, Noted, r
<1> QED
  BY <1>4, <1>5

\* The refresh.
LEMMA RefreshAnswers ==
  ASSUME NEW w, Answering(w)
  PROVE  Answered(w, RefreshWindow(w))
<1> DEFINE v == SetInteractiveResize(w)
<1>1. Noted(w, v)
  BY NotedFacts
<1>2. \/ RefreshWindow(w) = v /\ ConfigureIntent(v) \in {"NotNeeded", "Throttled"}
      \/ RefreshWindow(w) = SendPendingConfigure(v)
  BY DEF RefreshWindow
<1> HIDE DEF v
<1> QED
  BY <1>1, <1>2, HeldBack, SendAnswers

\* A commit takes its configures away; what the client was told last stays what it was.
LEMMA CommitToServer ==
  ASSUME NEW s, DOMAIN s = {"pending", "sent", "committed"}, IsSeq(s.sent),
         NEW k \in 0 .. Len(s.sent)
  PROVE  LET r == CommitTo(s, k)
         IN /\ DOMAIN r = DOMAIN s /\ r.pending = s.pending
            /\ r.sent = SubSeq(s.sent, k + 1, Len(s.sent)) /\ IsSeq(r.sent)
            /\ Len(s.sent) \in Nat /\ Len(r.sent) = Len(s.sent) - k
            /\ DOMAIN r.sent = 1 .. Len(s.sent) - k /\ DOMAIN s.sent = 1 .. Len(s.sent)
            /\ \A i \in DOMAIN r.sent : r.sent[i] = s.sent[k + i] /\ k + i \in DOMAIN s.sent
            /\ Server(r) = Server(s)
<1> DEFINE r == CommitTo(s, k)
           L == Len(s.sent)
           rest == SubSeq(s.sent, k + 1, L)
<1>0. /\ IsSeq(rest) /\ Len(rest) = L - k /\ L \in Nat /\ k \in 0 .. L
      /\ \A i \in 1 .. L - k : rest[i] = s.sent[k + i]
  <2> DEFINE q == s.sent
             all == SubSeq(q, k + 1, Len(q))
  <2>1. IsSeq(q) /\ k \in 0 .. Len(q)
    OBVIOUS
  <2> HIDE DEF q
  <2>2. /\ IsSeq(all) /\ Len(all) = Len(q) - k /\ Len(q) \in Nat
        /\ \A i \in 1 .. Len(q) - k : all[i] = q[k + i]
    BY <2>1, FiledInTwo
  <2> HIDE DEF all
  <2>3. all = rest /\ L = Len(q)
    BY DEF all, q
  <2> HIDE DEF rest, L
  <2> QED
    BY <2>1, <2>2, <2>3 DEF q
<1>1. /\ DOMAIN r = DOMAIN s /\ r.pending = s.pending /\ r.sent = rest
      /\ r.committed = IF k = 0 THEN s.committed ELSE s.sent[k].state
  BY DEF CommitTo
<1>11. DOMAIN s.sent = 1 .. L
  BY DEF IsSeq
<1> HIDE DEF r, rest, L
<1>2. /\ IsSeq(r.sent) /\ Len(r.sent) = L - k /\ L \in Nat /\ k \in 0 .. L
      /\ \A i \in 1 .. L - k : r.sent[i] = s.sent[k + i]
  BY <1>0, <1>1
<1>3. DOMAIN r.sent = 1 .. L - k /\ DOMAIN s.sent = 1 .. L
  BY <1>2, <1>11 DEF IsSeq
<1>4. \A i \in DOMAIN r.sent : r.sent[i] = s.sent[k + i] /\ k + i \in DOMAIN s.sent
  BY <1>2, <1>3
<1>5. CASE k = L
  <2>1. r.sent = <<>>
    BY <1>2, <1>3, <1>5 DEF IsSeq
  <2>2. s.sent = <<>> <=> L = 0
    BY DEF L, IsSeq
  <2>3. Server(r) = Server(s)
    BY <1>1, <1>2, <1>5, <2>1, <2>2 DEF Server, Last, L
  <2> QED
    BY <1>1, <1>2, <1>3, <1>4, <2>3 DEF r, L, rest
<1>6. CASE k # L
  <2>0. L \in Nat /\ k \in Nat /\ k < L
    BY <1>2, <1>6
  <2>1. L - k \in 1 .. L - k /\ k + (L - k) = L /\ L > 0
    BY <2>0
  <2>2. L \in DOMAIN s.sent /\ L - k \in DOMAIN r.sent /\ DOMAIN <<>> = {}
    BY <1>2, <1>3, <2>1
  <2>3. r.sent # <<>> /\ s.sent # <<>>
    BY <2>2
  <2>4. Last(r.sent) = s.sent[L]
    BY <1>2, <2>1 DEF Last
  <2>5. Server(r) = Server(s)
    BY <2>3, <2>4 DEF Server, Last, L
  <2> QED
    BY <1>1, <1>2, <1>3, <1>4, <2>5 DEF r, L, rest
<1> QED
  BY <1>5, <1>6

\* What a commit answers, and what it leaves to be answered.
LEMMA CommitAnswers ==
  ASSUME NEW w, Answering(w), NEW k \in 0 .. Len(w.s.sent), NEW size
  PROVE  LET r == [s |-> CommitTo(w.s, k), t |-> w.t, m |-> Committed(w.m, w.s.sent, k, size)]
         IN Answering(r) /\ (Filings(w) => Filings(r))
<1> DEFINE s == CommitTo(w.s, k)
           m == Committed(w.m, w.s.sent, k, size)
           r == [s |-> s, t |-> w.t, m |-> m]
           L == Len(w.s.sent)
<1>1. Shaped(w) /\ IsSeq(w.s.sent)
  BY DEF Answering, Shaped
<1>2. /\ DOMAIN s = DOMAIN w.s /\ s.pending = w.s.pending
      /\ s.sent = SubSeq(w.s.sent, k + 1, L) /\ IsSeq(s.sent)
      /\ L \in Nat /\ k \in 0 .. L /\ Len(s.sent) = L - k
      /\ DOMAIN s.sent = 1 .. L - k /\ DOMAIN w.s.sent = 1 .. L
      /\ \A i \in DOMAIN s.sent : s.sent[i] = w.s.sent[k + i] /\ k + i \in DOMAIN w.s.sent
      /\ Server(s) = Server(w.s)
  BY <1>1, CommitToServer DEF Shaped
<1>3. FiledMaximized(SubSeq(w.s.sent, k + 1, L),
                     FiledMaximized(SubSeq(w.s.sent, 1, k), w.m.is_maximized))
        = FiledMaximized(w.s.sent, w.m.is_maximized)
  BY <1>1, FiledInTwo
<1>4. /\ DOMAIN m = DOMAIN w.m
      /\ m.resize = IF w.m.resize = "WaitingForLastCommit" /\ w.m.resize_at <= k THEN "None"
                    ELSE w.m.resize
      /\ m.resize_at = IF w.m.resize_at <= k THEN 0 ELSE w.m.resize_at - k
      /\ m.once = IF w.m.once = "WaitingForCommit" /\ w.m.once_at <= k THEN "UseWindowSize"
                  ELSE w.m.once
      /\ m.once_at = IF w.m.once_at <= k THEN 0 ELSE w.m.once_at - k
  BY <1>1 DEF Committed, OnCommit, Shaped
<1>5. /\ m.needs_configure = w.m.needs_configure
      /\ m.pending_windowed = w.m.pending_windowed
      /\ m.is_windowed = FiledWindowed(SubSeq(w.s.sent, 1, k), w.m.is_windowed)
      /\ m.is_maximized = FiledMaximized(SubSeq(w.s.sent, 1, k), w.m.is_maximized)
  BY <1>1 DEF Committed, OnCommit, Shaped
<1> HIDE DEF s, m
<1>6. DOMAIN r = {"s", "m", "t"} /\ r.s = s /\ r.m = m /\ r.t = w.t
  OBVIOUS
<1> HIDE DEF r
<1> HIDE DEF L
<1>9. Shaped(r)
  BY <1>1, <1>2, <1>4, <1>5, <1>6 DEF Shaped
<1>10. \A n \in 1 .. L : ~(n <= k) => n - k \in 1 .. L - k
  BY <1>2
<1>11. Answering(r)
  BY <1>2, <1>4, <1>6, <1>9, <1>10 DEF Answering, L
<1>12. ASSUME Filings(w) PROVE Filings(r)
  <2>2. \A i \in DOMAIN s.sent : s.sent[i].windowed = {}
    BY <1>2, <1>12 DEF Filings
  <2>3. \A i \in DOMAIN SubSeq(w.s.sent, 1, k) : SubSeq(w.s.sent, 1, k)[i].windowed = {}
    <3>1. DOMAIN SubSeq(w.s.sent, 1, k) = 1 .. k
          /\ \A i \in 1 .. k : SubSeq(w.s.sent, 1, k)[i] = w.s.sent[i]
      <4> DEFINE q == w.s.sent
      <4>1. k \in 0 .. Len(q) /\ q \in Seq({q[i] : i \in DOMAIN q})
        BY <1>1 DEF IsSeq
      <4> HIDE DEF q
      <4>2. DOMAIN SubSeq(q, 1, k) = 1 .. k /\ \A i \in 1 .. k : SubSeq(q, 1, k)[i] = q[i]
        BY <4>1
      <4> QED
        BY <4>2 DEF q
    <3>2. \A i \in 1 .. k : i \in DOMAIN w.s.sent
      BY <1>2
    <3> QED
      BY <1>12, <3>1, <3>2 DEF Filings
  <2>4. m.is_windowed = FALSE
    <3> DEFINE first == SubSeq(w.s.sent, 1, k)
               V == [i \in DOMAIN first |-> first[i].windowed]
    <3>1. \A i \in DOMAIN first : V[i] = {}
      BY <2>3
    <3>2. m.is_windowed = LastFiled(first, V, w.m.is_windowed)
      BY <1>5 DEF FiledWindowed
    <3> HIDE DEF first, V
    <3> QED
      BY <1>12, <3>1, <3>2, NothingFiled DEF Filings
  <2> QED
    BY <1>2, <1>3, <1>5, <1>6, <1>12, <2>2, <2>4 DEF Filings
<1> QED
  BY <1>11, <1>12 DEF r, s, m

---------------------------------------------------------------------------
(* The invariant of what is outstanding. *)

\* The surface of an unmapped window: its client was told what is pending, which is never
\* both fullscreen and maximized, and nothing was filed under its configures.
Untold(s) ==
  /\ Sent(s) /\ ~(s.pending.fullscreen /\ s.pending.maximized)
  /\ \A i \in DOMAIN s.sent : s.sent[i].maximized = {} /\ s.sent[i].windowed = {}

Plain == ~Rushed /\ ~scenario.windowed

AnswerInv ==
  /\ phase # "Mapped" => Untold(surface)
  /\ phase = "Mapped" => /\ Answering(Window)
                         /\ fresh => Refreshed(Window)
                         /\ Plain => Filings(Window)

\* The window that an action leaves behind is the one it made.
LEMMA LeftBehind ==
  ASSUME NEW r, Becomes(r)
  PROVE  /\ Answering(r) => Answering(Window')
         /\ Refreshed(r) => Refreshed(Window')
         /\ Filings(r) => Filings(Window')
<1> DEFINE v == Window'
<1>1. v.s = r.s /\ v.m = r.m /\ v.t = r.t /\ DOMAIN v = {"s", "m", "t"}
  BY DEF Window, Becomes
<1> HIDE DEF v
<1>2. Shaped(r) => Shaped(v)
  BY <1>1 DEF Shaped
<1> QED
  BY <1>1, <1>2 DEF v, Answering, Refreshed, Filings

\* A window that does not know of being windowed fullscreen, of which there is none.
LEMMA PlainWindow ==
  ASSUME ToplevelInv, phase = "Mapped", Plain
  PROVE  Good(Window) /\ Window.m.pending_windowed \in BOOLEAN
BY DEF ToplevelInv, MappedInv, Plain, Good, WindowOk, MappedOk

\* What is done to a mapped window.
LEMMA ActAnswers ==
  ASSUME AnswerInv, ToplevelInv', NEW w, Act(w),
         Shaped(Window) => Asks(Window, w) /\ (~scenario.windowed => Requests(Window, w))
  PROVE  AnswerInv'
<1>1. /\ phase = "Mapped" /\ phase' = "Mapped" /\ scenario' = scenario /\ fresh' = FALSE
      /\ Becomes(w)
  BY DEF Act
<1>2. Answering(Window) /\ (Plain => Filings(Window)) /\ Shaped(Window)
  BY <1>1 DEF AnswerInv, Answering
<1>3. Answering(w)
  BY <1>2, AsksKeeps
<1>4. ASSUME Plain PROVE Filings(w)
  <2>1. Good(Window') /\ Window'.m = w.m
    BY <1>1, <1>4 DEF ToplevelInv, MappedInv, Plain, Rushed, Window, Becomes
  <2>2. w.m.pending_windowed \in BOOLEAN
    BY <2>1 DEF Good, WindowOk, MappedOk
  <2> QED
    BY <1>2, <1>4, <2>2, AsksKeeps DEF Plain
<1> QED
  BY <1>1, <1>3, <1>4, LeftBehind DEF AnswerInv, Plain, Rushed

\* A configure that is owed.
LEMMA OwedRequests ==
  ASSUME Shaped(Window)
  PROVE  Requests(Window, Owed) /\ Shaped(Owed)
<1> DEFINE w == Window
           r == Owed
<1>1. r = [w EXCEPT !.m.needs_configure = TRUE] /\ Shaped(w)
  BY DEF Owed
<1> HIDE DEF r, w
<1>2. /\ DOMAIN r = {"s", "m", "t"} /\ r.s = w.s /\ r.t = w.t /\ DOMAIN r.m = DOMAIN w.m
      /\ r.m.needs_configure = TRUE
      /\ \A f \in DOMAIN w.m \ {"needs_configure"} : r.m[f] = w.m[f]
  BY <1>1 DEF Shaped
<1>3. /\ r.m.once = w.m.once /\ r.m.once_at = w.m.once_at
      /\ r.m.resize = w.m.resize /\ r.m.resize_at = w.m.resize_at
      /\ r.m.is_windowed = w.m.is_windowed /\ r.m.is_maximized = w.m.is_maximized
      /\ r.m.pending_windowed = w.m.pending_windowed
  BY <1>1, <1>2 DEF Shaped
<1>4. Shaped(r)
  BY <1>1, <1>2 DEF Shaped
<1> QED
  BY <1>2, <1>3, <1>4 DEF Requests, Asks, r, w

\* The requests of a mapped window.
LEMMA RequestMappedAnswers ==
  ASSUME AnswerInv, ToplevelInv', NEW sizing \in {"fullscreen", "maximized"}, NEW on \in BOOLEAN,
         NEW elsewhere \in BOOLEAN, RequestMapped(sizing, on, elsewhere)
  PROVE  AnswerInv'
<1> DEFINE moved == IF elsewhere THEN MoveToOutput(Owed) ELSE Owed
           w == IF sizing = "fullscreen" THEN SetFullscreen(moved, on)
                ELSE SetSizing(Owed, sizing, on)
<1>1. Act(w)
  BY DEF RequestMapped
<1>2. ASSUME Shaped(Window) PROVE Requests(Window, w)
  <2>1. Requests(Window, Owed) /\ Shaped(Owed)
    BY <1>2, OwedRequests
  <2>2. Requests(Window, moved) /\ Shaped(moved)
    <3>1. Requests(Owed, MoveToOutput(Owed))
      BY <2>1, MoveToOutputAsks
    <3>2. Requests(Window, MoveToOutput(Owed)) /\ Shaped(MoveToOutput(Owed))
      BY <2>1, <3>1, AskedTwice DEF Requests, Asks
    <3> QED
      BY <2>1, <3>2
  <2> HIDE DEF moved
  <2>3. Requests(moved, SetFullscreen(moved, on)) /\ Requests(Owed, SetSizing(Owed, sizing, on))
    BY <2>1, <2>2, SetFullscreenAsks, SetSizingAsks
  <2> QED
    BY <2>1, <2>2, <2>3, AskedTwice DEF Requests
<1> HIDE DEF w
<1> QED
  BY <1>1, <1>2, ActAnswers DEF Requests

\* The user's actions.
LEMMA ToggleAnswers ==
  ASSUME AnswerInv, ToplevelInv',
         ToggleFullscreen \/ ToggleMaximized \/ ToggleWindowed \/ ToggleFloating \/ MoveWindow
  PROVE  AnswerInv'
<1> DEFINE full == SetSizing(Window, "fullscreen", PendingSizingMode(Window) # "Fullscreen")
           max == SetSizing(Window, "maximized", tile.floating \/ ~tile.maximized)
           windowed == ToggleWindowedFullscreen(Window)
           floated == ToggleWindowFloating(Window)
           moved == MoveToOutput(Window)
<1>1. Act(full) \/ Act(max) \/ (Act(windowed) /\ scenario.windowed) \/ Act(floated) \/ Act(moved)
  BY DEF ToggleFullscreen, ToggleMaximized, ToggleWindowed, ToggleFloating, MoveWindow
<1>2. Shaped(Window) => /\ Requests(Window, full) /\ Requests(Window, max)
                        /\ Asks(Window, windowed)
                        /\ Requests(Window, floated) /\ Requests(Window, moved)
  BY SetSizingAsks, ToggleWindowedAsks, ToggleWindowFloatingAsks, MoveToOutputAsks
<1> HIDE DEF full, max, windowed, floated, moved
<1> QED
  BY <1>1, <1>2, ActAnswers DEF Requests

\* A window is resized.
LEMMA ResizeAnswers ==
  ASSUME AnswerInv, ToplevelInv', Resize \/ InteractiveResize
  PROVE  AnswerInv'
<1>1. CASE Resize
  <2>1. PICK size \in Sizes : \/ Act(UpdateTileSizes([Window EXCEPT !.t.size = size]))
                              \/ Act(RequestSizeOnce(Window, size))
    BY <1>1 DEF Resize
  <2> DEFINE v == [Window EXCEPT !.t.size = size]
             w == UpdateTileSizes(v)
             u == RequestSizeOnce(Window, size)
  <2>2. ASSUME Shaped(Window) PROVE Requests(Window, w) /\ Requests(Window, u)
    <3>1. /\ DOMAIN v = {"s", "m", "t"} /\ v.s = Window.s /\ v.m = Window.m
          /\ DOMAIN v.t = DOMAIN Window.t /\ v.t.resizing = Window.t.resizing
      BY <2>2 DEF Shaped
    <3> HIDE DEF v
    <3>2. Requests(Window, v) /\ Shaped(v)
      BY <2>2, <3>1, PlacedAsks DEF Shaped, Requests, Asks
    <3>3. Requests(v, w) /\ Requests(Window, u)
      BY <2>2, <3>2, UpdateTileSizesAsks, RequestSizeOnceAsks
    <3> HIDE DEF w, u
    <3> QED
      BY <3>2, <3>3, AskedTwice DEF Requests
  <2>3. Act(w) \/ Act(u)
    BY <2>1
  <2> HIDE DEF w, u
  <2> QED
    BY <2>2, <2>3, ActAnswers DEF Requests
<1>2. CASE InteractiveResize
  <2> DEFINE w == [Window EXCEPT !.t.resizing = ~@]
  <2>1. Act(w)
    BY <1>2 DEF InteractiveResize
  <2>2. ASSUME Shaped(Window) PROVE Requests(Window, w)
    <3>1. /\ DOMAIN w = {"s", "m", "t"} /\ w.s = Window.s /\ w.m = Window.m
          /\ DOMAIN w.t = DOMAIN Window.t /\ w.t.resizing = ~Window.t.resizing
      BY <2>2 DEF Shaped
    <3> HIDE DEF w
    <3> QED
      BY <2>2, <3>1, PlacedAsks DEF Shaped
  <2> HIDE DEF w
  <2> QED
    BY <2>1, <2>2, ActAnswers DEF Requests
<1> QED
  BY <1>1, <1>2

\* The refresh sends what is pending.
LEMMA RefreshStepAnswers ==
  ASSUME ToplevelInv, AnswerInv, Refresh
  PROVE  AnswerInv'
<1> DEFINE w == RefreshWindow(Window)
<1>1. phase = "Mapped" /\ phase' = "Mapped" /\ scenario' = scenario /\ Becomes(w)
  BY DEF Refresh
<1>2. Answering(Window) /\ (Plain => Filings(Window))
  BY <1>1 DEF AnswerInv
<1>3. Answered(Window, w)
  BY <1>2, RefreshAnswers
<1> HIDE DEF w
<1>4. ASSUME Plain PROVE Filings(w)
  <2>1. Told(Window) /\ Window.m.pending_windowed = FALSE
    BY <1>1, <1>2, <1>4, PlainWindow DEF Good, Filings
  <2> QED
    BY <1>2, <1>3, <1>4, <2>1 DEF Answered, Told
<1> QED
  BY <1>1, <1>3, <1>4, LeftBehind DEF AnswerInv, Answered, Plain, Rushed

\* A commit answers what it commits to.
LEMMA CommitStepAnswers ==
  ASSUME AnswerInv, Commit
  PROVE  AnswerInv'
<1>1. phase = "Mapped" /\ phase' = "Mapped" /\ scenario' = scenario /\ fresh' = FALSE
  BY DEF Commit
<1>2. PICK k \in 0 .. Len(surface.sent) : \E size :
        Becomes([s |-> CommitTo(surface, k), t |-> tile,
                 m |-> Committed(win, surface.sent, k, size)])
  BY DEF Commit, Committed
<1> PICK size : Becomes([s |-> CommitTo(surface, k), t |-> tile,
                         m |-> Committed(win, surface.sent, k, size)])
  BY <1>2
<1> DEFINE v == Window
           w == [s |-> CommitTo(v.s, k), t |-> v.t, m |-> Committed(v.m, v.s.sent, k, size)]
<1>3. v.s = surface /\ v.m = win /\ v.t = tile
  BY DEF Window
<1>4. Becomes(w)
  BY <1>3
<1>5. k \in 0 .. Len(v.s.sent) /\ Answering(v) /\ (Plain => Filings(v))
  BY <1>1, <1>3 DEF AnswerInv
<1> HIDE DEF v
<1>6. Answering(w) /\ (Plain => Filings(w))
  BY <1>5, CommitAnswers
<1> HIDE DEF w
<1> QED
  BY <1>1, <1>4, <1>6, LeftBehind DEF AnswerInv, Plain, Rushed

---------------------------------------------------------------------------
(* The steps of an unmapped window. *)

\* A window opens knowing what its client was told, or is owed a configure.
LEMMA OpenedAnswers ==
  ASSUME NEW s, SurfaceOk(s), Untold(s), NEW size, NEW floating \in BOOLEAN,
         NEW maximized \in BOOLEAN
  PROVE  LET r == Opened(s, size, floating, maximized) IN Answering(r) /\ Filings(r)
<1> DEFINE r == Opened(s, size, floating, maximized)
           known == SizingModeOf(s.committed.fullscreen, s.committed.maximized) = "Maximized"
           wanted == SizingModeOf(s.pending.fullscreen, s.pending.maximized) = "Maximized"
           m == [Unopened EXCEPT !.geometry = size, !.is_maximized = known,
                                 !.pending_maximized = wanted]
           t == [NoTile EXCEPT !.size = size, !.restore_to_floating = floating]
           new == [s |-> s, m |-> m, t |-> t]
           added == IF floating /\ PendingSizingMode(new) = "Normal" THEN IntoFloating(new)
                    ELSE IntoColumn(new)
           grown == SetSizing(added, "maximized", TRUE)
<1>1. r = IF PendingSizingMode(added) = "Fullscreen" /\ maximized THEN grown ELSE added
  BY DEF Opened
<1>2. Good(r)
  BY OpenedFacts
<1>3. /\ DOMAIN m = DOMAIN Unopened /\ m.needs_configure = FALSE /\ m.once = "None"
      /\ m.resize = "None" /\ m.is_windowed = FALSE /\ m.pending_windowed = FALSE
      /\ m.is_maximized = known /\ known \in BOOLEAN
  BY DEF Unopened
<1>4. DOMAIN t = DOMAIN NoTile /\ t.resizing = FALSE
  BY DEF NoTile
<1> HIDE DEF r, m, t, known
<1>5. DOMAIN new = {"s", "m", "t"} /\ new.s = s /\ new.m = m /\ new.t = t
  OBVIOUS
<1> HIDE DEF new
<1>6. Shaped(new)
  BY <1>3, <1>4, <1>5 DEF Shaped, SurfaceOk, StateOk, Unopened, NoTile
<1>7. Answering(new)
  BY <1>3, <1>5, <1>6 DEF Answering
<1>8. /\ Requests(new, added)
      /\ ~added.m.needs_configure => ~m.is_maximized /\ PendingSizingMode(new) # "Maximized"
  BY <1>3, <1>5, <1>6, IntoColumnAsks, IntoFloatingAsks
<1> HIDE DEF added
<1>9. Requests(added, grown)
  BY <1>8, SetSizingAsks DEF Requests, Asks
<1>10. /\ Requests(new, r)
       /\ ~r.m.needs_configure => ~m.is_maximized /\ PendingSizingMode(new) # "Maximized"
  <2>1. Requests(new, grown) /\ (~grown.m.needs_configure => ~added.m.needs_configure)
    BY <1>8, <1>9, AskedTwice DEF Requests, Asks
  <2> HIDE DEF grown
  <2> QED
    BY <1>1, <1>8, <2>1
<1>11. Answering(r)
  BY <1>7, <1>10, AsksKeeps DEF Requests
<1>12. r.m.pending_windowed = FALSE /\ r.m.is_windowed = FALSE /\ r.m.is_maximized = known
  <2>1. r.m.pending_windowed \in BOOLEAN
    BY <1>2 DEF Good, WindowOk, MappedOk
  <2> QED
    BY <1>3, <1>5, <1>10, <2>1 DEF Requests, Asks
<1>13. r.s.sent = s.sent /\ Server(r.s) = Server(s)
  BY <1>5, <1>10 DEF Requests, Asks, Server
<1>14. FiledMaximized(r.s.sent, r.m.is_maximized) = known
  <2> DEFINE c == s.sent
             V == [i \in DOMAIN c |-> c[i].maximized]
  <2>1. \A i \in DOMAIN c : V[i] = {}
    BY DEF Untold
  <2>2. FiledMaximized(c, known) = LastFiled(c, V, known)
    BY DEF FiledMaximized
  <2>3. r.s.sent = c
    BY <1>13
  <2> HIDE DEF c, V
  <2> QED
    BY <1>12, <2>1, <2>2, <2>3, NothingFiled
<1>15. r.m.needs_configure = FALSE => Server(r.s).maximized = FALSE /\ known = FALSE
  <2>1. PendingSizingMode(new) # "Maximized" => s.pending.maximized = FALSE
    <3>1. PendingSizingMode(new) = SizingModeOf(s.pending.fullscreen, s.pending.maximized)
      BY <1>3, <1>5 DEF PendingSizingMode
    <3>2. s.pending.maximized \in BOOLEAN /\ ~(s.pending.fullscreen /\ s.pending.maximized)
      BY DEF SurfaceOk, StateOk, Untold
    <3> QED
      BY <3>1, <3>2 DEF SizingModeOf
  <2> QED
    BY <1>3, <1>10, <1>13, <2>1 DEF Untold, Sent
<1>16. \A i \in DOMAIN r.s.sent : r.s.sent[i].windowed = {}
  BY <1>13 DEF Untold
<1>17. Filings(r)
  BY <1>12, <1>14, <1>15, <1>16 DEF Filings
<1> QED
  BY <1>11, <1>17 DEF r

\* A commit of an unmapped window takes its configures away.
LEMMA CommitToUntold ==
  ASSUME NEW s, SurfaceOk(s), Untold(s), NEW k \in 0 .. Len(s.sent)
  PROVE  Untold(CommitTo(s, k))
<1> DEFINE r == CommitTo(s, k)
<1>1. /\ r.pending = s.pending /\ Server(r) = Server(s)
      /\ \A i \in DOMAIN r.sent : r.sent[i] = s.sent[k + i] /\ k + i \in DOMAIN s.sent
  BY CommitToServer DEF SurfaceOk
<1> HIDE DEF r
<1>2. Untold(r)
  BY <1>1 DEF Untold, Sent
<1> QED
  BY <1>2 DEF r

\* A configure of an unmapped window tells its client what is pending.
LEMMA ConfiguredUntold ==
  ASSUME NEW s, SurfaceOk(s), Untold(s), NEW p, StateOk(p), ~(p.fullscreen /\ p.maximized)
  PROVE  Untold(SendConfigure([s EXCEPT !.pending = p], {}, {}))
<1> DEFINE told == [s EXCEPT !.pending = p]
           r == SendConfigure(told, {}, {})
           e == [state |-> p, maximized |-> {}, windowed |-> {}]
<1>1. DOMAIN told = DOMAIN s /\ told.pending = p /\ told.sent = s.sent
  BY DEF SurfaceOk
<1> HIDE DEF told
<1>2. SurfaceOk(told)
  BY <1>1 DEF SurfaceOk
<1>3. r.pending = p /\ Server(r) = p
  BY <1>1, <1>2, SendConfigureFacts
<1>4. r.sent = Append(s.sent, e)
  BY <1>1, <1>2 DEF SendConfigure, SurfaceOk
<1>5. e.maximized = {} /\ e.windowed = {}
  OBVIOUS
<1> HIDE DEF r, e
<1>6. \A i \in DOMAIN r.sent : r.sent[i] = e \/ (i \in DOMAIN s.sent /\ r.sent[i] = s.sent[i])
  <2> DEFINE q == s.sent
             u == Append(q, e)
  <2>1. IsSeq(q) /\ u = r.sent
    BY <1>4 DEF SurfaceOk
  <2> HIDE DEF q
  <2>2. /\ \A i \in DOMAIN u : u[i] = IF i = Len(u) THEN e ELSE q[i]
        /\ \A i \in DOMAIN u : i \in DOMAIN q \/ i = Len(u)
    BY <2>1, FiledOneMore
  <2> HIDE DEF u
  <2> QED
    BY <2>1, <2>2 DEF q
<1>7. Untold(r)
  BY <1>3, <1>5, <1>6 DEF Untold, Sent
<1> QED
  BY <1>7 DEF r, told

\* A window that starts afresh was told nothing.
LEMMA BareUntold == Untold(Bare)
BY DEF Untold, Bare, Sent, Server, State

\* A window opens.
LEMMA MapAnswers ==
  ASSUME ToplevelInv, AnswerInv, Map
  PROVE  AnswerInv'
<1>1. /\ phase' = "Mapped" /\ scenario' = scenario /\ fresh' = FALSE /\ phase # "Mapped"
  BY DEF Map
<1>2. /\ SurfaceOk(surface) /\ un.is_pending_maximized \in BOOLEAN /\ Untold(surface)
      /\ scenario.floating \in BOOLEAN
  BY <1>1 DEF ToplevelInv, UnmappedInv, UnmappedOk, AnswerInv, ScenarioType
<1>3. PICK size \in Sizes, floating \in {FALSE, scenario.floating} :
        \/ \E k \in 1 .. Len(surface.sent) :
             Becomes(Opened(CommitTo(surface, k), size, floating, un.is_pending_maximized))
        \/ Becomes(Opened(surface, size, floating, FALSE))
  BY DEF Map
<1>4. floating \in BOOLEAN
  BY <1>2
<1>5. PICK s, maximized : /\ SurfaceOk(s) /\ Untold(s) /\ maximized \in BOOLEAN
                          /\ Becomes(Opened(s, size, floating, maximized))
  <2>1. CASE Becomes(Opened(surface, size, floating, FALSE))
    BY <1>2, <2>1
  <2>2. ASSUME NEW k \in 1 .. Len(surface.sent),
               Becomes(Opened(CommitTo(surface, k), size, floating, un.is_pending_maximized))
        PROVE  \E s : /\ SurfaceOk(s) /\ Untold(s)
                      /\ Becomes(Opened(s, size, floating, un.is_pending_maximized))
    <3>1. k \in 0 .. Len(surface.sent)
      OBVIOUS
    <3> QED
      BY <1>2, <2>2, <3>1, CommitToFacts, CommitToUntold
  <2> QED
    BY <1>2, <1>3, <2>1, <2>2
<1> DEFINE r == Opened(s, size, floating, maximized)
<1>6. Answering(r) /\ Filings(r) /\ Becomes(r)
  BY <1>4, <1>5, OpenedAnswers
<1> HIDE DEF r
<1> QED
  BY <1>1, <1>6, LeftBehind DEF AnswerInv

\* What happens to an unmapped window, and how it starts and ends.
LEMMA UnmappedAnswers ==
  ASSUME ToplevelInv, AnswerInv,
         \/ NewToplevel \/ EnvironmentChanges \/ CommitUnmapped \/ InitialConfigure
         \/ Unmap \/ Destroy
         \/ \E sizing \in {"fullscreen", "maximized"}, on \in BOOLEAN : \E o :
              RequestEarly(sizing, on, o) \/ RequestLate(sizing, on, o)
  PROVE  AnswerInv'
<1> SUFFICES phase' # "Mapped" /\ Untold(surface')
  BY DEF AnswerInv
<1>1. CASE Unmap \/ Destroy
  BY <1>1, BareUntold DEF Unmap, Destroy, Blank
<1>2. CASE \/ NewToplevel \/ EnvironmentChanges
           \/ \E sizing \in {"fullscreen", "maximized"}, on \in BOOLEAN : \E o :
                RequestEarly(sizing, on, o)
  BY <1>2 DEF NewToplevel, EnvironmentChanges, RequestEarly, AnswerInv
<1>3. ASSUME phase # "Mapped" PROVE SurfaceOk(surface) /\ UnmappedOk(un) /\ Untold(surface)
  BY <1>3 DEF ToplevelInv, UnmappedInv, AnswerInv
<1>4. CASE CommitUnmapped
  <2>1. \/ surface' = surface
        \/ \E k \in 1 .. Len(surface.sent) : surface' = CommitTo(surface, k)
    BY <1>4 DEF CommitUnmapped
  <2>2. phase # "Mapped" /\ phase' # "Mapped"
    BY <1>4 DEF CommitUnmapped
  <2>3. ASSUME NEW k \in 1 .. Len(surface.sent), surface' = CommitTo(surface, k)
        PROVE  Untold(surface')
    <3>1. k \in 0 .. Len(surface.sent)
      OBVIOUS
    <3> QED
      BY <1>3, <2>2, <2>3, <3>1, CommitToUntold
  <2> QED
    BY <1>3, <2>1, <2>2, <2>3
<1>5. CASE InitialConfigure
  <2>1. phase # "Mapped" /\ phase' # "Mapped"
    BY <1>5 DEF InitialConfigure
  <2>2. PICK rules \in Rules, size \in DefaultSizes : \E mon :
          surface' = SendConfigure(
            [surface EXCEPT !.pending =
               IF HasWorkspace(mon, rules.workspace)
                 THEN ConfigureNewWindow(
                        State(0, Ruled(rules.fullscreen, un.wants_fullscreen),
                              /\ Ruled(rules.maximized, un.wants_maximized)
                              /\ ~Ruled(rules.fullscreen, un.wants_fullscreen)), size)
                 ELSE @], {}, {})
    BY <1>5 DEF InitialConfigure
  <2> DEFINE fullscreen == Ruled(rules.fullscreen, un.wants_fullscreen)
             maximized == Ruled(rules.maximized, un.wants_maximized)
             state == State(0, fullscreen, maximized /\ ~fullscreen)
             sized(mon) == IF HasWorkspace(mon, rules.workspace)
                             THEN ConfigureNewWindow(state, size) ELSE surface.pending
  <2> PICK mon : surface' = SendConfigure([surface EXCEPT !.pending = sized(mon)], {}, {})
    BY <2>2
  <2> DEFINE p == sized(mon)
  <2>3. surface' = SendConfigure([surface EXCEPT !.pending = p], {}, {})
    OBVIOUS
  <2>4. fullscreen \in BOOLEAN /\ maximized \in BOOLEAN
    BY <1>3, <2>1 DEF Ruled, UnmappedOk
  <2> HIDE DEF fullscreen, maximized
  <2>5. StateOk(state) /\ ~(state.fullscreen /\ state.maximized)
    BY <2>4 DEF State, StateOk
  <2> HIDE DEF state
  <2>6. StateOk(p) /\ ~(p.fullscreen /\ p.maximized)
    BY <1>3, <2>1, <2>5, ConfigureNewWindowFacts DEF SurfaceOk, Untold
  <2> HIDE DEF p
  <2> QED
    BY <1>3, <2>1, <2>3, <2>6, ConfiguredUntold
<1>6. ASSUME NEW sizing \in {"fullscreen", "maximized"}, NEW on \in BOOLEAN, NEW o,
             RequestLate(sizing, on, o)
      PROVE  phase' # "Mapped" /\ Untold(surface')
  <2>1. phase # "Mapped" /\ phase' # "Mapped"
    BY <1>6 DEF RequestLate
  <2> DEFINE q == Requested(surface.pending, sizing, on, un.is_pending_maximized)
             sized(mon, size) == IF HasWorkspace(mon, ~on /\ un.named)
                                   THEN ConfigureNewWindow(q, size) ELSE surface.pending
  <2>2. PICK mon, size :
          surface' = SendConfigure([surface EXCEPT !.pending = sized(mon, size)], {}, {})
    BY <1>6 DEF RequestLate
  <2> DEFINE p == sized(mon, size)
  <2>3. surface' = SendConfigure([surface EXCEPT !.pending = p], {}, {})
    BY <2>2
  <2>4. StateOk(q) /\ ~(q.fullscreen /\ q.maximized)
    BY <1>3, <2>1 DEF SurfaceOk, UnmappedOk, StateOk, Requested
  <2> HIDE DEF q
  <2>5. StateOk(p) /\ ~(p.fullscreen /\ p.maximized)
    BY <1>3, <2>1, <2>4, ConfigureNewWindowFacts DEF SurfaceOk, Untold
  <2> HIDE DEF p
  <2> QED
    BY <1>3, <2>1, <2>3, <2>5, ConfiguredUntold
<1> QED
  BY <1>1, <1>2, <1>4, <1>5, <1>6

---------------------------------------------------------------------------
(* Nothing is left waiting. *)

\* Nothing is there at first.
LEMMA AnswerInit == Init => AnswerInv
BY BareUntold DEF Init, AnswerInv

\* Every step keeps the invariant.
LEMMA AnswerNext == ToplevelInv /\ ToplevelInv' /\ AnswerInv /\ [Next]_vars => AnswerInv'
<1> SUFFICES ASSUME ToplevelInv, ToplevelInv', AnswerInv, [Next]_vars PROVE AnswerInv'
  OBVIOUS
<1>1. CASE \/ NewToplevel \/ EnvironmentChanges \/ CommitUnmapped \/ InitialConfigure
           \/ Unmap \/ Destroy
  BY <1>1, UnmappedAnswers
<1>2. CASE Map
  BY <1>2, MapAnswers
<1>3. CASE Commit
  BY <1>3, CommitStepAnswers
<1>4. CASE ClientRequest
  <2>1. PICK sizing \in {"fullscreen", "maximized"}, on \in BOOLEAN :
          \/ \E o : RequestEarly(sizing, on, o) \/ RequestLate(sizing, on, o)
          \/ \E elsewhere \in BOOLEAN : RequestMapped(sizing, on, elsewhere)
    BY <1>4 DEF ClientRequest
  <2> QED
    BY <2>1, UnmappedAnswers, RequestMappedAnswers
<1>5. CASE ToggleFullscreen \/ ToggleMaximized \/ ToggleWindowed \/ ToggleFloating \/ MoveWindow
  BY <1>5, ToggleAnswers
<1>6. CASE Resize \/ InteractiveResize
  BY <1>6, ResizeAnswers
<1>7. CASE Refresh
  BY <1>7, RefreshStepAnswers
<1>8. CASE UNCHANGED vars
  BY <1>8 DEF vars, AnswerInv, Plain, Rushed, Window
<1> QED
  BY <1>1, <1>2, <1>3, <1>4, <1>5, <1>6, <1>7, <1>8 DEF Next

\* A client that has committed to all it was sent has what is pending, and neither a size it
\* was asked for once nor an interactive resize still waits for a commit that came: for any
\* sizes, rules and outputs, in every scenario, however requests, refreshes and commits
\* interleave (send_pending_configure, on_commit).
THEOREM NothingIsLeftWaiting ==
  Spec => [](phase = "Mapped" /\ fresh /\ surface.sent = <<>> =>
               /\ surface.pending = surface.committed
               /\ win.once # "WaitingForCommit"
               /\ win.resize = IF tile.resizing THEN "Ongoing" ELSE "None")
<1> DEFINE NothingWaits == phase = "Mapped" /\ fresh /\ surface.sent = <<>> =>
                             /\ surface.pending = surface.committed
                             /\ win.once # "WaitingForCommit"
                             /\ win.resize = IF tile.resizing THEN "Ongoing" ELSE "None"
<1>1. AnswerInv => NothingWaits
  <2>1. Window.s = surface /\ Window.m = win /\ Window.t = tile
    BY DEF Window
  <2>2. 1 .. Len(<<>>) = {}
    OBVIOUS
  <2> QED
    BY <2>1, <2>2 DEF AnswerInv, Answering, Refreshed
<1> HIDE DEF NothingWaits
<1>2. Spec => []NothingWaits
  BY <1>1, ToplevelInit, ToplevelNext, AnswerInit, AnswerNext, PTL DEF Spec
<1> QED
  BY <1>2 DEF NothingWaits

\* And it knows the state the layout wants of it: what the window has committed to and what was
\* filed by serial have caught up, unless it is ever windowed fullscreen, when that depends on
\* the sizes, or floats while several requests fall between two refreshes.
THEOREM WindowsSettle ==
  Spec => [](~(scenario.floating /\ scenario.batched) /\ ~scenario.windowed => Settled)
<1> DEFINE Settles == ~(scenario.floating /\ scenario.batched) /\ ~scenario.windowed => Settled
<1>1. ToplevelInv /\ AnswerInv => Settles
  <2> SUFFICES ASSUME ToplevelInv, AnswerInv, Plain, phase = "Mapped", fresh,
                      surface.sent = <<>>
               PROVE  /\ surface.pending = surface.committed
                      /\ SizingMode(Window) = PendingSizingMode(Window)
                      /\ win.is_windowed = win.pending_windowed
                      /\ win.is_maximized = win.pending_maximized
                      /\ win.once # "WaitingForCommit"
                      /\ win.resize = IF tile.resizing THEN "Ongoing" ELSE "None"
    BY DEF Settled, Plain, Rushed
  <2>1. Window.s = surface /\ Window.m = win /\ Window.t = tile
    BY DEF Window
  <2>2. Answering(Window) /\ Refreshed(Window) /\ Filings(Window) /\ Told(Window)
    BY PlainWindow DEF AnswerInv, Good
  <2>3. 1 .. Len(<<>>) = {} /\ DOMAIN <<>> = {}
    OBVIOUS
  <2>4. surface.pending = surface.committed /\ Server(surface) = surface.committed
    BY <2>1, <2>2 DEF Refreshed, Server
  <2>5. win.once # "WaitingForCommit" /\ win.resize = IF tile.resizing THEN "Ongoing" ELSE "None"
    BY <2>1, <2>2, <2>3 DEF Answering, Refreshed
  <2>6. win.is_windowed = FALSE /\ win.pending_windowed = FALSE
    BY <2>1, <2>2 DEF Filings
  <2>7. FiledMaximized(surface.sent, win.is_maximized) = win.is_maximized
    BY <2>3, NothingFiled DEF FiledMaximized
  <2>8. win.is_maximized = win.pending_maximized
    BY <2>1, <2>2, <2>4, <2>6, <2>7 DEF Filings, Refreshed, Told
  <2>9. SizingMode(Window) = PendingSizingMode(Window)
    BY <2>1, <2>4, <2>6 DEF SizingMode, PendingSizingMode
  <2> QED
    BY <2>4, <2>5, <2>6, <2>8, <2>9
<1> HIDE DEF Settles
<1>2. Spec => []Settles
  BY <1>1, ToplevelInit, ToplevelNext, AnswerInit, AnswerNext, PTL DEF Spec
<1> QED
  BY <1>2 DEF Settles

=============================================================================
