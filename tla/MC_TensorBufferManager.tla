------------------------ MODULE MC_TensorBufferManager ------------------------
(* One client over a tensor pool with fewer slots than file pages, so that  *)
(* get_page and append_page evict.                                         *)
EXTENDS TensorBufferManager
=============================================================================
