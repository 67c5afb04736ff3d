------------------------ MODULE MCFlushRefinement ------------------------
(* One uploader on real hardware. *)
EXTENDS MCClocking, FlushRefinement

MCReal == {Real(Plain), Real(WithFdb), Real(AutoSpeed), Real(OtherChip),
           Real(OtherPlain), Real(Overcommitted), Real(NoDeviceId)}
=============================================================================
