------------------------------ MODULE MCErasure ------------------------------
EXTENDS Erasure, TLC

\* Row ids are given to the configurations by name.
MCRowIds == UNION {{UserId(u) : u \in Users},
                   {ErasureId(e) : e \in Erasures},
                   {ItemId(i) : i \in Items}}
=============================================================================
