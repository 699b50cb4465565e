---------------------------- MODULE MCBufferPool ----------------------------
(* Two clients with buffers of different size; datagrams that fill a buffer,*)
(* overflow the smaller one, or leave the end of an earlier one behind them.*)
EXTENDS BufferPool

TwoReaders == {"small", "large"}

Sizes == [r \in TwoReaders |-> IF r = "small" THEN 1 ELSE 2]

ThreeDatagrams == {<<1>>, <<2, 3>>, <<>>}
=============================================================================
