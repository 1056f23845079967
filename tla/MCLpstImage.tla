----------------------------- MODULE MCLpstImage -----------------------------
(* Programs for TLC: two modules with exports out of order, a module that     *)
(* exports nothing, and one whose export tables end exactly at a page.        *)
EXTENDS LpstImage

Proc(locals, inits, code) == [locals |-> locals, inits |-> inits, code |-> code]
Value(local, value) == [local |-> local, value |-> value]

One == [procs   |-> <<Proc(2, <<Value(0, 300), Value(1, 65535)>>, 6),
                      Proc(1, <<Value(0, 33410)>>, 0),
                      Proc(3, <<>>, 2)>>,
        exports |-> <<2, 1>>, globals |-> <<7>>]
Two == [procs   |-> <<Proc(0, <<>>, 14), Proc(5, <<Value(4, 5)>>, 1)>>,
        exports |-> <<2>>, globals |-> <<>>]
Private == [procs |-> <<Proc(1, <<>>, 3)>>, exports |-> <<>>, globals |-> <<8, 9>>]
Four == [procs   |-> <<Proc(0, <<>>, 1), Proc(1, <<>>, 1), Proc(2, <<>>, 1),
                     Proc(3, <<>>, 1)>>,
         exports |-> <<1, 2, 3, 4>>, globals |-> <<>>]

Program(modules, globals, entry) ==
  [modules |-> modules, globals |-> globals, entry |-> entry,
   ram |-> <<11, 12, 13, 14>>, data |-> 5]

First  == Program(<<One, Two>>, <<3>>, <<1, 1>>)
Second == Program(<<Private, Two>>, <<>>, <<2, 0>>)
AtPage == Program(<<One, Four>>, <<>>, <<1, 0>>)

WholeCase(program) ==
  [files |-> "whole", mme |-> Mme(program), obj |-> Obj(program),
   written |-> Written(program)]

CutCases(whole) ==
  {[whole EXCEPT !.files = "cut", !.mme = SubSeq(@, 1, n)] :
     n \in 0 .. Len(whole.mme) - 1}
    \union {[whole EXCEPT !.files = "cut", !.obj = SubSeq(@, 1, n)] :
              n \in 0 .. Len(whole.obj) - 1}

\* One word replaced: words of the header, a module's page, an export's offset
DamagedCases(whole) ==
  LET export == (PageBytes \div 2) * whole.mme[14] + 2
      words  == ({8} \X {0, 9}) \union ({9} \X {0, 256, 258, 512, 768, 519})
                  \union ({12} \X {0, 2, 8, 60000}) \union ({14} \X {99})
                  \union ({16} \X {2, 500})
                  \union ({HeaderWords + 2} \X {1, 2, 9})
                  \union ({HeaderWords + 3} \X {0, 2, 9})
                  \union ({export} \X (0 .. 40))
  IN  {[whole EXCEPT !.files = "damaged", !.mme[word[1]] = word[2]] : word \in words}

MCPrograms == {First, Second}
MCCases ==
  LET first == WholeCase(First)
      second == WholeCase(Second)
  IN  {first, second} \union CutCases(first) \union CutCases(second)
        \union DamagedCases(first)
MCAtPagePrograms == {AtPage}
MCAtPage == {WholeCase(AtPage)}
==============================================================================
