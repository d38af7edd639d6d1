---------------------------- MODULE MCInference ----------------------------
(* Small instances of Inference for TLC.                                   *)
EXTENDS Inference

CONSTANTS m1, m2

Image(f, r) == [file |-> f, resize |-> r]
Ask(m, s, images) == [model |-> m, stream |-> s, inputs |-> images]
Other == {TRUE}     \* another size than the model's
Same  == {FALSE}
Vague == BOOLEAN    \* a shape with too few dimensions

OneInput(m) == IF m = m1 THEN 1 ELSE 2
InputCounts == [m \in Models |-> OneInput(m)]
Out(n, y, e) == [name |-> n, type |-> y, elements |-> e]
OutputTensors == [m \in Models |->
    IF m = m1 THEN <<Out("boxes", "FLOAT32", 4)>>
              ELSE <<Out("mask", "UINT8", 6), Out("score", "FLOAT16", 1)>>]

\* m1 is loaded when first asked for, m2 at the start.
StartModels == <<m2>>
NoModels == << >>

\* An image from a stream; a file and an image from the request to be resized; a
\* request with an input too few.
MixedRequests ==
    {Ask(m1, TRUE, <<Image(FALSE, Vague)>>),
     Ask(m2, FALSE, <<Image(TRUE, Same), Image(FALSE, Other)>>),
     Ask(m1, FALSE, << >>)}
TwoResized == {Ask(m2, FALSE, <<Image(FALSE, Other), Image(FALSE, Other)>>)}
PlainRequest == {Ask(m1, FALSE, <<Image(FALSE, Same)>>)}
FileAndStream == {Ask(m1, TRUE, <<Image(TRUE, Same)>>)}
=============================================================================
