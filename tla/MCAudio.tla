------------------------------- MODULE MCAudio ------------------------------
(***************************************************************************)
(* TLC instance of the way of a song to the loudspeaker: the codec and its *)
(* drivers, and the stages of the MP3 decoder, one of them at a time.      *)
(***************************************************************************)
EXTENDS Codec, Mp3Bits, Mp3Huffman, Mp3Spectrum, Mp3Filterbank, MCMp3Stream

\* The codes: tables of each kind, the loopLinbits one cut to a few codes; a code of
\* each length, and every end of a block around them.
Strings(n) == {<<>>} \cup UNION {{SubSeq(<<a, b, c, d>>, 1, k) : a, b, c, d \in 0..1} : k \in 1..n}
Linbits(n) == [type |-> "loopLinbits", linBits |-> n,
               words |-> <<\hf002, \h5, \h2101, \h1000, \h1000, \hf001, \h1f12, \h1ff2>>]
MCPairTables ==
  (0 :> [type |-> "noBits", linBits |-> 0, words |-> <<>>]) @@
  (1 :> [type |-> "oneShot", linBits |-> 0, words |-> huffTable01]) @@
  (7 :> [type |-> "loopNoLinbits", linBits |-> 0, words |-> huffTable07]) @@
  (19 :> Linbits(4)) @@ (23 :> Linbits(13))
MCRegionTables == {<<1, 7, 19>>, <<7, 0, 1>>, <<0, 19, 7>>}
MCCodeBits ==
  Strings(4) \cup
  {p \o tail : tail \in Strings(2),
            p \in {<<0,0,0,1,0,1,1,0,0,1,0,1,0,0,0,1,1,0>>,
                   <<0,0,0,0,0,0,0,0,1,0,0,0,0,0,0,0,1,1,0,0,1,0,0,0,0,1>>,
                   <<1,1,0,1,0,1,1,1,1,0,1,0,0,0,1,0,1,0,1,1,0,0,0,0,0,0,1>>}}

\* The spectra: quiet or loud up to a band of long blocks, short ones or both.
Spectrum(x, bound) == [x |-> x, bound |-> bound]
MCSpectra ==
  LET low == Spectrum({1, 3}, 6)
      mixed == Spectrum({17, 35, 40}, 42)
      wide == Spectrum({0, 100, 201}, 206)
      Pair(a, b) == (0 :> a) @@ (1 :> b)
  IN {Pair(low, mixed), Pair(wide, low), Pair(Spectrum({300, 575}, 576), Spectrum({}, 0))}

----------------------------------------------------------------------------
Subjects == {"codec", "reader", "huffman", "spectrum", "filter", "stream"}
VARIABLE subject
audioVars == <<subject, vars, readerVars, huffmanVars, spectrumVars, filterVars, streamVars>>

\* The stages that are not looked at stay in one of their initial states.
MCInit ==
  /\ subject \in Subjects
  /\ Init /\ (subject # "codec" => part = "api")
  /\ ReaderInit /\ (subject # "reader" => reading = "side")
  /\ HuffmanInit
  /\ SpectrumInit /\ (subject # "spectrum" => band = "mpeg1_44")
  /\ FilterInit /\ (subject # "filter" => nChans = 1)
  /\ StreamInit /\ (subject # "stream" => stream = "usual")

MCNext ==
  /\ UNCHANGED subject
  /\ \/ /\ subject = "codec" /\ Next
        /\ UNCHANGED <<readerVars, huffmanVars, spectrumVars, filterVars, streamVars>>
     \/ /\ subject = "reader" /\ ReaderNext
        /\ UNCHANGED <<vars, huffmanVars, spectrumVars, filterVars, streamVars>>
     \/ /\ subject = "huffman" /\ HuffmanNext
        /\ UNCHANGED <<vars, readerVars, spectrumVars, filterVars, streamVars>>
     \/ /\ subject = "spectrum" /\ SpectrumNext
        /\ UNCHANGED <<vars, readerVars, huffmanVars, filterVars, streamVars>>
     \/ /\ subject = "filter" /\ FilterNext
        /\ UNCHANGED <<vars, readerVars, huffmanVars, spectrumVars, streamVars>>
     \/ /\ subject = "stream" /\ StreamNext
        /\ UNCHANGED <<vars, readerVars, huffmanVars, spectrumVars, filterVars>>

MCSpec == MCInit /\ [][MCNext]_audioVars
=============================================================================
