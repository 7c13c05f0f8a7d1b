-------------------------- MODULE MCFramePipeline --------------------------
(* FramePipeline with both schedulers. With the age guard set a frame may still *)
(* be young enough, so the runs with the guard cover those without it.         *)
EXTENDS FramePipeline

BothSchedulers == {"completion", "timer"}
=============================================================================
