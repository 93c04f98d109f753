------------------------------- MODULE MCPipeline -------------------------------
(* Values of the constants of Pipeline for TLC: covers and data at the     *)
(* limits.                                                                 *)
EXTENDS Pipeline

Seg(kind) == [kind |-> kind, bare |-> FALSE]
App == Seg("app")
Sos == Seg("sos")
Exif(o) == Seg("exif") @@ [orientation |-> o]
Adobe(rgb) == Seg("adobe") @@ [rgb |-> rgb]
Dqt(id, sum) == Seg("dqt") @@ [id |-> id, sum |-> sum]
Sof(w, h, tables) == Seg("sof") @@ [width |-> w, height |-> h, tables |-> tables, progressive |-> FALSE]
Bare(s) == [s EXCEPT !.bare = TRUE]

Jpeg(segs, scans) == [segs |-> segs, scans |-> scans]
Colour == <<0, 1, 1>>
Body(w, h) == <<Dqt(0, 667), Dqt(1, 667), Sof(w, h, Colour), Sos>>
Of2(w, h) == Jpeg(<<App>> \o Body(w, h), 1)
Plain == Of2(416, 504)

MCSides == {
  <<399, 504>>, <<400, 400>>, <<408, 407>>, <<416, 399>>, <<420, 500>>,
  <<4096, 400>>, <<4097, 400>>, <<8192, 400>>, <<8193, 400>>}
MCJpegs == {Plain} \union {Of2(d[1], d[2]) : d \in MCSides}
  \union {Jpeg(<<App, Exif(o)>> \o Body(420, 500), 1) : o \in 0..9}
  \union {Jpeg(<<Exif(9), Exif(6)>> \o Body(407, 500), 1), Jpeg(<<Exif(0), Exif(5), Exif(3)>> \o Body(420, 407), 1)}
  \union {Jpeg(<<App>> \o Body(416, 504), n) : n \in {100, 101, 500, 501}}
  \union {
    Jpeg(<<Adobe(TRUE)>> \o Body(416, 504), 101), Jpeg(<<Adobe(TRUE)>> \o Body(416, 504), 1),
    Jpeg(<<Adobe(FALSE)>> \o Body(416, 504), 1),
    Jpeg(<<App, Adobe(TRUE), Exif(8)>> \o Body(416, 504), 1),
    Jpeg(<<App, Bare(Sof(416, 504, Colour))>> \o Body(9000, 9000), 1),
    Jpeg(<<App, Bare(Sof(416, 504, Colour)), Bare(Sos)>> \o Body(9000, 9000), 1),
    Jpeg(<<App, Bare(Exif(6))>> \o Body(416, 504), 1),
    Jpeg(<<Sof(416, 504, Colour)>> \o Body(416, 504), 1),
    Jpeg(<<App, Dqt(0, 667), Sof(416, 504, Colour), Sos>>, 1),
    Jpeg(<<App, Sof(416, 504, Colour), Sos, Dqt(0, 667), Dqt(1, 667)>>, 1),
    Jpeg(<<App, Dqt(0, 667), Sof(416, 504, <<0>>), Sos>>, 1),
    Jpeg(<<App, Dqt(0, 667), Sof(416, 504, <<0, 0>>), Sos>>, 1),
    Jpeg(<<App, Dqt(0, 186), Dqt(1, 221), Dqt(0, 667), Sof(416, 504, Colour), Sos>>, 1),
    Jpeg(<<App, Dqt(0, 186), Dqt(1, 64), Sof(416, 504, Colour), Sos>>, 1),
    Jpeg(<<App, Dqt(0, 151), Dqt(1, 64), Sof(416, 504, Colour), Sos>>, 1),
    Jpeg(<<App, Dqt(0, 667), Dqt(1, 667), Sof(416, 504, Colour)>>, 1)}

Cover(jpeg, size, body, transcoded, nonzero) ==
  [jpeg |-> jpeg, size |-> size, body |-> body, transcoded |-> transcoded, nonzero |-> nonzero]
Data(id, size, deflated, known) == [id |-> id, size |-> size, deflated |-> deflated, known |-> known]

Usual == Cover(Plain, 90000, 80000, 70000, 15000)
\* All coefficients of 416 x 504 pixels but those of the means.
Noisy == Cover(Plain, 900000, 800000, 700000, 206388)
Sizes == {
  Cover(Plain, 133, 100, 70000, 15000), Cover(Plain, 134, 100, 70000, 480),
  Cover(Plain, 8 * MiB, 1999471, 5 * MiB, 482), Cover(Plain, 8 * MiB + 1, 80000, 70000, 15000),
  Cover(Plain, 5 * MiB, 2000000, 5 * MiB - 1, 600), Cover(Plain, 5 * MiB + 1, 2000001, 70000, 15000),
  Cover(Plain, 20 * MiB, 4 * MiB, 20 * MiB, 15000), Cover(Plain, 20 * MiB + 1, 80000, 70000, 15000),
  Cover(Plain, 5 * MiB, 4 * MiB, 20 * MiB - 1, 15000), Cover(Plain, 90000, 4 * MiB + 1, 5 * MiB + 1, 15000),
  Cover(Plain, 90000, 80000, 20 * MiB + 1, 15000), Cover(Plain, 5 * MiB, 80000, 5 * MiB, 15000),
  Cover(Plain, 5 * MiB, 80000, 5 * MiB - 1, 15000)}

Small == Data("small", 200, 90, FALSE)
Datas == {
  Small, Data("nothing", 0, 8, FALSE), Data("byte", 1, 9, FALSE),
  Data("dense", 700, 702, FALSE), Data("even", 650, 650, FALSE), Data("noise", 1250, 1262, TRUE),
  \* Exactly what the carriers hold, and a byte more.
  Data("X full", 610, 700, FALSE), Data("X over", 611, 700, FALSE),
  Data("Reddit full", 1207, 1300, FALSE), Data("Reddit over", 1208, 1300, FALSE),
  Data("noise full", 9696, 9800, FALSE), Data("noise over", 9697, 9800, FALSE),
  Data("long", 9000, 9100, FALSE), Data("bluesky", 400000, 166000, FALSE),
  Data("bluesky edge", 400000, 166464, FALSE), Data("bluesky over", 400000, 166465, FALSE),
  Data("2 MiB", 2 * MiB, 1000, FALSE), Data("less", 2 * MiB - 1, 1000, FALSE),
  Data("10 MiB", 10 * MiB, 100, TRUE), Data("zip", 10 * MiB + 1, 100, TRUE),
  Data("text", 10 * MiB + 1, 100, FALSE), Data("5 MiB", 5 * MiB, 100, FALSE),
  Data("5 MiB more", 5 * MiB + 1, 100, FALSE), Data("20 MiB", 20 * MiB, 100, FALSE),
  Data("20 MiB more", 20 * MiB + 1, 100, FALSE),
  Data("all", 1610612736, 1000, FALSE), Data("too much", 1610612737, 1000, FALSE),
  Data("large", 1073741824, 1010000000, TRUE), Data("largest", 1018800000, 1018900000, FALSE)}

MCInputs == {<<Cover(j, 90000, 80000, 70000, 15000), Small>> : j \in MCJpegs}
  \union {<<c, Small>> : c \in Sizes}
  \union {<<c, d>> : c \in {Usual, Noisy}, d \in Datas}
MCReplacements == {Data("other", 200, 300, FALSE), Data("grown", 201, 90, FALSE)}
MCFront == {
  [kind |-> "app", length |-> 18], [kind |-> "app", length |-> 4096],
  [kind |-> "app", length |-> 65537], [kind |-> "app2", length |-> 600]}
MCTableSums == {64, 151, 186, 221, 667}
=============================================================================
