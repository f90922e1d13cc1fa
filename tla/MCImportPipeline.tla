-------------------------- MODULE MCImportPipeline --------------------------
(* Values for ImportPipeline: files with and without a title, backups that *)
(* hold the keywords of the file and backups that do not.                  *)
EXTENDS ImportPipeline

MCFileValues == {[title |-> "file", keywords |-> {"f"}], [title |-> "", keywords |-> {"f"}]}
MCBackupValues == {[title |-> "backup", keywords |-> {"b"}],
                   [title |-> "backup", keywords |-> {"f", "b"}]}

=============================================================================
