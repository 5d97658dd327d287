CONSTANTS
    Areas = {"address", "apply", "browse", "browse with", "call", "call tool", "challenge", "codex", "command", "date", "dial", "discover", "entry", "export", "fill", "form", "form body", "glob", "grant", "grep", "header", "headers", "import", "jq", "listing", "listings", "lists", "load", "marks", "media", "near", "needs", "notice", "pages", "path", "payload", "pick", "pick rows", "probe", "register", "requote", "results", "rounds", "rows", "search", "searched", "secret", "snapshot", "stem", "stream", "string", "sync", "tab", "template", "text", "trace", "values", "vscode", "words"}
SPECIFICATION Spec
INVARIANTS TypedIsTaken CatalogueIsHonest ConfigsReadBack
    ChecksKeepThePromise KeptIsFound WireIsWhole DialsAsSaved ServersAreTheirs CommandsRunOnce
CHECK_DEADLOCK FALSE
