------------------------------ MODULE MCFileStore ------------------------------
EXTENDS FileStore

\* A byte, and a write that is longer than a circular file.
MCInputs == {<<1>>, <<2, 1, 1, 2, 1>>}
MCOver   == {<<1>>}
MCAcross == {<<1, 3>>}
===============================================================================
