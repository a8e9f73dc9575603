----------------------------- MODULE MCConvolution -----------------------------
EXTENDS Convolution

\* A matrix that leaves part of its work-group idle, up to a window larger
\* than it, and one that fills a work-group.
SmallSizes == ((0..2) \X (0..3)) \cup {<<1, 4>>, <<3, 1>>}
===============================================================================
