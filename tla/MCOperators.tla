----------------------------- MODULE MCOperators -----------------------------
(* Small sets of operands, the boundaries of every width among them *)
EXTENDS Operators

MCSampleWords == {0, 1, 2, 3, 7, 15, 31, 100, 32767, 32768, 32769, 65436,
                  65505, 65521, 65529, 65533, 65534, 65535}

MCStarts == {0, 1, 126, 127, 255, 65000, 65533}

MCDisplacements == (-131 .. 131) \cup {-65000, 300}

MCFieldWords == {{}, {0, 15}, {1, 4, 5}, 0 .. 15}

MCFieldControls ==
  [shift : {0, 4, 15}, width : {0, 1, 4, 15}, local : {0, 1}, index : {0, 3}]

MCTexts == UNION {[1 .. n -> {65, 97, 91}] : n \in 0 .. 3}

MCKeys ==
  LET fields == {<<>>, <<1>>, <<2>>, <<1, 2>>}
  IN  [flags : {0, 65}, combined : {1},
       fields : UNION {[1 .. n -> fields] : n \in 0 .. 2}]
        \cup [flags : {0, 64, 65, 66, 192}, combined : {1, 256}, fields : {<<>>}]

MCMessages == UNION {[1 .. n -> {0, 1, 31}] : n \in {3, 6}}

MCInits == [local : {0, 5, 63},
            value : {0, 127, 128, 255, 256, 32769, 65407, 65408, 65535}]

MCHeaders ==
  [locals : {0, 64, 127}, inits : {<<>>} \cup [1 .. 1 -> MCInits]
                                    \cup [1 .. 2 -> MCInits]]
    \cup [locals : {3}, inits : {<<i, i, i>> : i \in MCInits}]

MCRecords ==
  LET texts == {<<>>, <<7>>, <<0, 7>>, <<7, 0, 9>>}
      typed == {<< <<1>> >>, << <<1, 2>>, <<3, 4>> >>}
  IN  [prefix : UNION {[1 .. n -> typed] : n \in 0 .. 2},
       tag : {5}, fields : UNION {[1 .. n -> texts] : n \in 1 .. 2},
       room : {0, 2, 8}, guard : {2, FalseWord}]
==============================================================================
