--------------------------- MODULE MCSignalEngine ---------------------------
(***************************************************************************)
(* Five M15 bars of a range are stored, which have swept a low, or their   *)
(* mirror image; more M5 bars follow.                                      *)
(***************************************************************************)
EXTENDS SignalEngine

MCcfg ==
    [atrPeriod |-> 2, left |-> 1, right |-> 1, dispBody |-> 100,
     dispRange |-> 120, minFvg |-> 25, tolerance |-> 15, sweepPen |-> 10,
     breakBuffer |-> 5, slBuffer |-> 50, minConfidence |-> 75, minRR |-> 100,
     maxSetupAge |-> 3, maxConfirmAge |-> 4]

MCSessions == {[name |-> "ASIA", from |-> 0, to |-> 2],
               [name |-> "LONDON", from |-> 2, to |-> 3]}

Shape(move, up, down) == [move |-> move, up |-> up, down |-> down]
MCShapes == {Shape(2, 2, 2), Shape(-2, 2, 2), Shape(8, 0, 0), Shape(-8, 0, 0),
             Shape(0, 6, 0), Shape(0, 0, 6)}
MCLiveShapes == {Shape(8, 6, 0), Shape(-8, 0, 6)}

Bar(t, o, h, l, c) ==
    [t |-> t, o |-> o, h |-> h, l |-> l, c |-> c, closed |-> TRUE]
Range15 ==
    <<Bar(1, 1000, 1004, 998, 1002), Bar(2, 1002, 1004, 998, 1000),
      Bar(3, 1000, 1004, 998, 1002), Bar(4, 1002, 1002, 996, 1002),
      Bar(5, 1002, 1004, 998, 1000), Bar(6, 1000, 1004, 998, 1002),
      Bar(7, 1002, 1004, 998, 1000), Bar(8, 1000, 1000, 994, 1000),
      Bar(9, 1000, 1006, 1000, 1000), Bar(10, 1000, 1004, 998, 1002),
      Bar(11, 1002, 1004, 998, 1000), Bar(12, 1000, 1004, 998, 1002),
      Bar(13, 1002, 1002, 996, 1002), Bar(14, 1002, 1004, 998, 1000),
      Bar(15, 1000, 1006, 1000, 1000)>>
\* The same start, then a rise that leaves lows and highs behind.
Rise15 == SubSeq(Range15, 1, 3) \o
    <<Bar(4, 1002, 1004, 996, 998), Bar(5, 998, 1004, 998, 998),
      Bar(6, 998, 998, 992, 998), Bar(7, 998, 1006, 998, 1006),
      Bar(8, 1006, 1014, 1006, 1014), Bar(9, 1014, 1022, 1014, 1022),
      Bar(10, 1022, 1022, 1016, 1022), Bar(11, 1022, 1028, 1022, 1022),
      Bar(12, 1022, 1028, 1020, 1026), Bar(13, 1026, 1026, 1014, 1024),
      Bar(14, 1024, 1026, 1018, 1020), Bar(15, 1020, 1022, 1014, 1016)>>
\* A low swept twice.
Double15 == SubSeq(Range15, 1, 3) \o
    <<Bar(4, 1002, 1004, 996, 998), Bar(5, 998, 1004, 998, 998),
      Bar(6, 998, 1002, 996, 1000), Bar(7, 1000, 1008, 1000, 1008),
      Bar(8, 1008, 1010, 1002, 1004), Bar(9, 1004, 1012, 1004, 1012),
      Bar(10, 1012, 1012, 1004, 1004), Bar(11, 1004, 1004, 992, 1002),
      Bar(12, 1002, 1004, 998, 1000), Bar(13, 1000, 1006, 998, 1004),
      Bar(14, 1004, 1004, 992, 1002), Bar(15, 1002, 1010, 1002, 1010)>>
Mirror(bars) ==
    [i \in DOMAIN bars |->
        Bar(i, 2000 - bars[i].o, 2000 - bars[i].l, 2000 - bars[i].h,
            2000 - bars[i].c)]
Up      == <<1000, 1010>>
Down    == <<1010, 1000>>
Flat    == <<1000, 1001>>
Start(bars, h4, h1) == [bars |-> bars, h4 |-> h4, h1 |-> h1]
MCStarts == {Start(Range15, Up, Up), Start(Mirror(Range15), Flat, Down),
             Start(Rise15, Up, Flat), Start(Double15, Flat, Up),
             Start(Mirror(Double15), Flat, Down), Start(Range15, Up, Down)}
=============================================================================
