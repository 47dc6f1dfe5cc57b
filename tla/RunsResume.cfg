SPECIFICATION ReportsSpec
CONSTANTS
RunKinds = {"documents", "research", "file_organization", "workflow","docs_maintenance", "command_assistant","github_maintenance", "context_maintainer", "plan"}
ResumeCommands = {"runs resume"}
MaxResumes = 2
INVARIANT ResumeFindsTheWorkflow
CHECK_DEADLOCK FALSE
