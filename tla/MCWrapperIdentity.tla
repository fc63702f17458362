-------------------------- MODULE MCWrapperIdentity --------------------------
(* WrapperIdentity on a tree of two nested lists and an alias envelope. *)
EXTENDS WrapperIdentity, TLC

CONSTANTS outer, inner, leaf, envelope, content

MCNodes == {outer, inner, leaf, envelope, content}
MCLists == {outer, inner}
MCChildren == outer :> <<inner, envelope>> @@ inner :> <<leaf>> @@ envelope :> <<content>>
                @@ leaf :> <<>> @@ content :> <<>>
MCIndex == outer :> 1 @@ inner :> 2 @@ leaf :> 3 @@ envelope :> 4 @@ content :> 4
=============================================================================
