-------------------------- MODULE MCRecordActions --------------------------
(* Two records on the tab of those in use or of those archived; the second   *)
(* is the own account of the person at the page.                             *)
EXTENDS RecordActions

CONSTANTS r1, r2

TwoRecords == <<r1, r2>>
InProduction == [active |-> TRUE, inProduction |-> TRUE, archived |-> FALSE, used |-> FALSE]
InArchive == [InProduction EXCEPT !.active = FALSE, !.archived = TRUE]
BothTabs == {[r \in Records |-> InProduction], [r \in Records |-> InArchive]}

AllDialogs ==
  {StatusUser, StatusPak, CompleteBatch, ChangeUserPassword,
   ArchiveStatusUser, ArchiveStatusPak, ArchiveStatusBatch, ArchiveKgPrefix,
   ArchiveStatusKgVersion, ArchiveStatusProductionOrder, ArchiveStatusDefectGroup,
   ArchiveStatusDefectType,
   DeleteUser, DeletePak, DeleteBatch, DeleteKgPrefix, DeleteKgVersion,
   DeleteProductionOrder, DeleteDefectGroup, DeleteDefectType}
=============================================================================
