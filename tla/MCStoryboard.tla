---------------------------- MODULE MCStoryboard ----------------------------
(* Sources around every threshold of the tables and of the bitrate cap, and   *)
(* with some of them durations around a tile and around a sheet.             *)
EXTENDS Storyboard

(* One size below, on and above the sizes of the rungs. *)
SomeSizes == {360, 480, 600, 1080, 1440}

(* The kbps whose cap, 1.1 times as much, meets a rate of the tables: 1400,   *)
(* 1600, 3000 and 5000; and the smallest and a large one.                    *)
SomeBitrates ==
  (0 .. 3) \cup (1262 .. 1283) \cup (1440 .. 1458) \cup (2718 .. 2730)
  \cup (4540 .. 4548) \cup {9000}

SomeDegrees == {0, 90, -90, 180, 45}

(* None, slides, 9.99.., 10, 29.97 and a broken denominator. *)
SomeRates == {<<0, 0>>, <<1, 7>>, <<10, 1>>, <<30000, 1001>>, <<9, 0>>}

(* 0.4 s, for which probe has 0; 5 s; 12.5 s; a sheet of 100 tiles, and then  *)
(* 0.4 s more, without a cue of its own, and 0.6 s, with one of a second.     *)
SomeDurations == {4, 50, 125, 5000, 5004, 5006}

SomeTimes == {0, 4, 49, 50, 125, 4550, 4999, 5000, 5003, 5006}

Plain == {s \in [width : SomeSizes, height : SomeSizes, degrees : {0, 90},
                 kbps : {9000}, avgRate : {<<30000, 1001>>}, baseRate : {<<30000, 1001>>}] :
            s.width # s.height}

SomeInputs == (Source \X {0}) \cup (Plain \X SomeDurations)
=============================================================================
