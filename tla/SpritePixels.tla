---------------------------- MODULE SpritePixels ----------------------------
(***************************************************************************)
(* The pixels of a sprite of the classic sheets (lib/epfDecoder.ts) and    *)
(* the exceptions of weapons in a dye (lib/weaponDyeExceptions.ts), a file *)
(* that others write and that is read anew when its time has changed.  A   *)
(* mask is a row of bytes, each a run of columns; a pixel is the palette   *)
(* and the number of its colour.  The file does not change while one       *)
(* sprite is decoded, and each time it is written it has another time.     *)
(***************************************************************************)
EXTENDS Integers, Sequences, FiniteSets, FiniteSetsExt, SequencesExt

CONSTANTS
    Sprites,   \* [kind, number, row, width, lines, vc, rc, avc], a line a mask and colours
    Contents,  \* what the file may hold: [readable, entries], entries by <<kind, number>>
    MaxWrites

VARIABLES
    file,   \* [time, readable, entries]; one that is not there cannot be read
    cache,  \* cachedMtimeMs and cachedFile: [time, entries]
    shown   \* the sprite that was decoded last, and its pixels

spriteVars == <<file, cache, shown>>

NoTime == -1
Undecoded == [none |-> TRUE]

-----------------------------------------------------------------------------
\* normalizeWeaponDyeHeightRanges: ranges in either order, cut at 0, joined with the one
\* before when they touch.
Upright(r) == <<Max({0, Min({r[1], r[2]})}), Max({0, r[1], r[2]})>>
Joined(merged, r) ==
    IF merged = << >> \/ r[1] > Last(merged)[2] + 1 THEN Append(merged, r)
    ELSE Append(Front(merged), <<Last(merged)[1], Max({Last(merged)[2], r[2]})>>)
Merged(ranges) ==
    FoldLeft(Joined, << >>,
             SetToSortSeq({Upright(r) : r \in Range(ranges)},
                          LAMBDA a, b : a[1] < b[1] \/ (a[1] = b[1] /\ a[2] < b[2])))

\* normalizeFile
NormalEntry(e) ==
    [rows |-> {v \in e.rows : v >= 0}, keep |-> e.keep \intersect (0 .. 255),
     force |-> e.force \intersect (0 .. 255), ranges |-> Merged(e.ranges)]
Normal(entries) == [k \in DOMAIN entries |-> NormalEntry(entries[k])]

\* loadWeaponDyeExceptions
Empty == << >>
Load ==
    IF ~ file.readable THEN [time |-> NoTime, entries |-> Empty]
    ELSE IF file.time # cache.time THEN [time |-> file.time, entries |-> Normal(file.entries)]
    ELSE cache

\* applyWeaponDyeExceptionDecision
Decided(fallback, entries, s, index, y) ==
    IF <<s.kind, s.number>> \notin DOMAIN entries THEN fallback
    ELSE LET e == entries[<<s.kind, s.number>>]
         IN  CASE e.rows # {} /\ s.row \notin e.rows -> fallback
               [] OTHER ->
                   CASE \E r \in Range(e.ranges) : y \in r[1] .. r[2] -> FALSE
                     [] OTHER -> \/ index \in e.keep
                                 \/ index \notin e.force /\ fallback

-----------------------------------------------------------------------------
\* shouldUseOriginalWeaponPalette
SwordKeeps(row, number, index) ==
    \/ number # 151 /\ index < 22
    \/ row \notin {0, 6} /\ index \in {143, 32, 35, 36}
    \/ row = 0 /\ number # 62 /\ index \in 42 .. 47
    \/ row = 0 /\ number = 18 /\ index \in 115 .. 119
    \/ row = 14 /\ index \in (81 .. 85) \union (48 .. 63) \union {130}
    \/ row = 5 /\ index \in (88 .. 93) \union {120}
    \/ row = 6 /\ index \in (145 .. 155) \union (225 .. 229)
    \/ index \in {18, 20, 21}
    \/ row = 11 /\ index \in {112} \union (200 .. 207)
    \/ row \in {6, 8, 10, 15} /\ index \in 89 .. 94
    \/ row = 16 /\ \/ number \in {126, 131} /\ index \in 89 .. 95
                   \/ number \in {124, 129, 131} /\ index \in 112 .. 119
                   \/ number \in {124, 125} /\ index \in 88 .. 96
FanKeeps(row, number, index) ==
    \/ row \in {1, 2} /\ index > 55 /\ index \notin (114 .. 117) \union (106 .. 108)
    \/ row \in {1, 2} /\ index \in {20, 22}
    \/ index < 17
    \/ row # 0 /\ index \in {143, 32, 35, 36}
    \/ row = 0 /\ number = 0 /\ index \in (33 .. 36) \union {49, 50, 53}
    \/ row = 0 /\ index \in {59, 62}
SpearKeeps(row, index) ==
    \/ row # 1 /\ index \in 136 .. 151
    \/ index < 17
    \/ index \in 32 .. 39
KeepsPalette(s, index) ==
    CASE s.kind = "sword" -> SwordKeeps(s.row, s.number, index)
      [] s.kind = "fan" -> FanKeeps(s.row, s.number, index)
      [] s.kind = "spear" -> SpearKeeps(s.row, index)

\* The colours of a dye run up and down again; one that moves goes through more of them.
Tri8(x) == IF x % 15 < 8 THEN x % 15 ELSE 15 - (x % 15)
Tri15(x) == IF x % 31 < 16 THEN x % 31 ELSE 31 - (x % 31)
DyeColor(avc, index) == IF avc = -1 THEN index % 8 ELSE Tri15(Tri8(index) + avc)

Shifted(index, by) == IF index >= 48 THEN (index + 8 * by) % 256 ELSE index
Own(index) == [palette |-> "own", color |-> index]
WeaponPixel(s, keeps, index) ==
    IF keeps THEN Own(Shifted(index, s.rc))
    ELSE [palette |-> "dye", color |-> Shifted(DyeColor(s.avc, index), s.rc)]

\* decodeBodyEpfItem: some bodies wear the dye everywhere but on the skin.
Skin(number) ==
    CASE number = 17 -> 16 .. 31
      [] number \in {115, 116, 126, 127} -> (16 .. 32) \union {34, 36, 37}
      [] number = 70 -> (16 .. 32) \union {34, 36, 37, 80, 81, 82}
      [] OTHER -> 0 .. 255
BodyPixel(s, index) ==
    IF index \notin Skin(s.number)
    THEN Own((index + (IF s.vc >= 255 THEN 48 ELSE 0) + 8 * s.vc) % 256)
    ELSE Own(IF s.vc < 255 THEN Shifted(index, s.vc) ELSE index)
PlainPixel(s, index) == Own(IF s.vc < 255 THEN Shifted(index, s.vc) ELSE index)

IsWeapon(s) == s.kind \in {"sword", "spear", "fan"}
PixelOf(s, entries, index, y) ==
    CASE s.kind = "body" -> BodyPixel(s, index)
      [] IsWeapon(s) ->
            WeaponPixel(s, s.vc < 255 \/ Decided(KeepsPalette(s, index), entries, s, index, y),
                        index)
      [] OTHER -> PlainPixel(s, index)

-----------------------------------------------------------------------------
\* The rows of a mask: a byte is a run, painted or not; 0 ends the row, and so does its edge.
Run(acc, byte, width) ==
    IF acc.ended THEN acc
    ELSE IF byte = 0 THEN [acc EXCEPT !.ended = TRUE]
    ELSE LET after == acc.column + (byte % 128)
         IN  [column |-> after, ended |-> after >= width,
              painted |-> acc.painted \union
                             IF byte < 128 THEN {} ELSE acc.column .. Min({after, width}) - 1]
Painted(mask, width) ==
    FoldLeft(LAMBDA acc, byte : Run(acc, byte, width),
             [column |-> 0, ended |-> FALSE, painted |-> {}], mask).painted
Pixels(s, entries) ==
    [y \in DOMAIN s.lines |->
        [x \in Painted(s.lines[y].mask, s.width) |->
            PixelOf(s, entries, s.lines[y].colors[x + 1], y - 1)]]

\* decodeEpfItem, decodeBodyEpfItem and decodeWeaponEpfItem: the exceptions are looked at
\* for each pixel of a weapon in a dye.
Asks(s) == /\ IsWeapon(s) /\ s.vc >= 255
           /\ \E line \in Range(s.lines) : Painted(line.mask, s.width) # {}
Decode(s) ==
    LET loaded == IF Asks(s) THEN Load ELSE cache
    IN  /\ cache' = loaded
        /\ shown' = [sprite |-> s, pixels |-> Pixels(s, loaded.entries)]
        /\ UNCHANGED file

\* Others write the file or take it away.
Write(content) ==
    /\ file.time < MaxWrites
    /\ file' = [time |-> file.time + 1, readable |-> content.readable,
                entries |-> content.entries]
    /\ shown' = Undecoded /\ UNCHANGED cache
Unlink ==
    /\ file.readable
    /\ file' = [file EXCEPT !.readable = FALSE, !.entries = Empty]
    /\ shown' = Undecoded /\ UNCHANGED cache

Init == /\ file = [time |-> 0, readable |-> FALSE, entries |-> Empty]
        /\ cache = [time |-> NoTime, entries |-> Empty] /\ shown = Undecoded
Next ==
    \/ \E s \in Sprites : Decode(s)
    \/ \E content \in Contents : Write(content)
    \/ Unlink
Spec == Init /\ [][Next]_spriteVars

-----------------------------------------------------------------------------
\* Properties

TypeOK ==
    /\ file.time \in 0 .. MaxWrites
    /\ cache.time \in {NoTime} \union 1 .. MaxWrites
    /\ \A k \in DOMAIN cache.entries : \A r \in Range(cache.entries[k].ranges) : 0 <= r[1] /\ r[1] <= r[2]

\* The columns that a mask paints are those of its runs before its end, none beyond the
\* width, and a pixel has one of 256 colours (the loops of the decoders).
Before(mask, k) == FoldLeft(LAMBDA n, b : n + (b % 128), 0, SubSeq(mask, 1, k - 1))
PaintedAsMasked ==
    shown # Undecoded =>
        \A y \in DOMAIN shown.pixels :
            LET mask == shown.sprite.lines[y].mask
            IN  /\ DOMAIN shown.pixels[y] =
                      {x \in 0 .. shown.sprite.width - 1 :
                          \E k \in DOMAIN mask :
                              /\ \A j \in 1 .. k : mask[j] # 0
                              /\ mask[k] > 128
                              /\ x \in Before(mask, k) .. Before(mask, k) + (mask[k] % 128) - 1}
                /\ \A x \in DOMAIN shown.pixels[y] :
                      /\ shown.pixels[y][x].color \in 0 .. 255
                      /\ shown.pixels[y][x].palette = "dye" => shown.pixels[y][x].color < 16

\* The exceptions in force are those of the file as it is now, whatever it held before and
\* although it is read only when its time has changed: in a row that any of its ranges
\* names, as it was written, a weapon is dyed, elsewhere it keeps the colours that are to
\* be kept; without the file, or with one that cannot be read, the rules alone decide
\* (loadWeaponDyeExceptions, normalizeWeaponDyeHeightRanges).
Told(s, index, y) ==
    IF ~ file.readable \/ <<s.kind, s.number>> \notin DOMAIN file.entries
    THEN KeepsPalette(s, index)
    ELSE LET e == file.entries[<<s.kind, s.number>>]
             named == \E r \in Range(e.ranges) : y \in r[1] .. r[2] \union r[2] .. r[1]
         IN  IF e.rows # {} /\ s.row \notin e.rows THEN KeepsPalette(s, index)
             ELSE ~ named /\ (index \in e.keep \/ (index \notin e.force /\ KeepsPalette(s, index)))
DyedAsTold ==
    shown # Undecoded /\ IsWeapon(shown.sprite) /\ shown.sprite.vc >= 255 =>
        \A y \in DOMAIN shown.pixels : \A x \in DOMAIN shown.pixels[y] :
            (shown.pixels[y][x].palette = "own")
                <=> Told(shown.sprite, shown.sprite.lines[y].colors[x + 1], y - 1)

\* The ranges that are kept do not touch, and the last step of a dye that moves shows what
\* its first does, so the loop has no jump (map255toTri15).
RangesApart ==
    \A k \in DOMAIN cache.entries :
        LET ranges == cache.entries[k].ranges
        IN  \A i \in 2 .. Len(ranges) : ranges[i][1] > ranges[i - 1][2] + 1
DyeLoops == \A index \in 0 .. 255 : DyeColor(0, index) = DyeColor(31, index)
=============================================================================
